---- MODULE Spec2Model ----
(***************************************************************************)
(* YALS Lite: command execution and streaming engine                       *)
(* (internal/executor), its transport handlers (internal/handler, in the   *)
(* WebSocket and the server-sent-events variant) and input validation      *)
(* (internal/validator).                                                   *)
(*                                                                         *)
(* Go strings are modelled as sequences of one-character strings, so that  *)
(* parsing and formatting are computed character by character.             *)
(***************************************************************************)
EXTENDS Integers, Sequences, FiniteSets, TLC

----------------------------------------------------------------------------
(* Bounds of the model *)

\* lines the child processes of a behaviour write to their pipes, in total
MaxLines == 2
\* capacity of an invocation's event channel (make(chan executor.Output, 100)),
\* scaled down so that a full channel is reachable
ChanCap == 1
\* seconds the clock of the rate limiter runs for
MaxTime == 5
\* checkRateLimit calls of a behaviour
MaxChecks == 5
\* probe rounds of the DNS resolver in a behaviour
MaxRounds == 2
\* Execute calls of a behaviour, and the length of the command lines handed
\* to createCommand
MaxCalls == 2
MaxCmdLen == 2
\* goroutines that take and release the mutexes at the same time
MaxLockTasks == 2
\* handleCommand goroutines that are in the rate limiter at the same time
MaxCallers == 2

\* the request goroutines (handleCommand / handleExecCommand) of the model
Invs == {1, 2}
NoInv == 0
\* the two pipes of a child process
Pipes == {"stdout", "stderr"}

----------------------------------------------------------------------------
(* Strings *)

Digits == {"0", "1", "2", "3", "4", "5", "6", "7", "8", "9"}
HexLetters == {"a", "b", "c", "d", "e", "f", "A", "B", "C", "D", "E", "F"}
Letters == {"a", "b", "c", "d", "e", "f", "g", "h", "i", "j", "k", "l", "m",
            "n", "o", "p", "q", "r", "s", "t", "u", "v", "w", "x", "y", "z",
            "A", "B", "C", "D", "E", "F", "G", "H", "I", "J", "K", "L", "M",
            "N", "O", "P", "Q", "R", "S", "T", "U", "V", "W", "X", "Y", "Z"}
WhiteSpace == {" ", "\t", "\n", "\r"}

\* strings.Index(s, c) for a one-character c, 1-based; 0 stands for -1
RECURSIVE IndexFrom(_, _, _)
IndexFrom(s, c, p) ==
    IF p > Len(s) THEN 0
    ELSE IF s[p] = c THEN p
    ELSE IndexFrom(s, c, p + 1)

Index(s, c) == IndexFrom(s, c, 1)

\* strings.LastIndex(s, c) for a one-character c, 1-based; 0 stands for -1
RECURSIVE LastIndexFrom(_, _, _)
LastIndexFrom(s, c, p) ==
    IF p < 1 THEN 0
    ELSE IF s[p] = c THEN p
    ELSE LastIndexFrom(s, c, p - 1)

LastIndex(s, c) == LastIndexFrom(s, c, Len(s))

\* strings.Count(s, c) for a one-character c
Count(s, c) == Cardinality({p \in 1..Len(s) : s[p] = c})

\* strings.Contains(s, sub)
Contains(s, sub) ==
    \E p \in 1..(Len(s) - Len(sub) + 1) : SubSeq(s, p, p + Len(sub) - 1) = sub

\* strings.TrimSpace
RECURSIVE TrimLeft(_)
TrimLeft(s) ==
    IF s # <<>> /\ Head(s) \in WhiteSpace THEN TrimLeft(Tail(s)) ELSE s

RECURSIVE TrimRight(_)
TrimRight(s) ==
    IF s # <<>> /\ s[Len(s)] \in WhiteSpace
    THEN TrimRight(SubSeq(s, 1, Len(s) - 1)) ELSE s

TrimSpace(s) == TrimRight(TrimLeft(s))

\* strings.Split(s, c) for a one-character c
RECURSIVE Split(_, _)
Split(s, c) ==
    IF Index(s, c) = 0 THEN <<s>>
    ELSE <<SubSeq(s, 1, Index(s, c) - 1)>>
             \o Split(SubSeq(s, Index(s, c) + 1, Len(s)), c)

\* strings.Fields(s): the maximal runs of non-space characters
RECURSIVE Fields(_)
Fields(s) ==
    IF TrimLeft(s) = <<>> THEN <<>>
    ELSE LET t == TrimLeft(s)
             ends == {p \in 1..Len(t) : t[p] \in WhiteSpace}
             e == IF ends = {} THEN Len(t) + 1
                  ELSE CHOOSE p \in ends : \A q \in ends : p <= q
         IN  <<SubSeq(t, 1, e - 1)>> \o Fields(SubSeq(t, e, Len(t)))

\* the value of a decimal numeral
RECURSIVE DecValue(_)
DecValue(s) ==
    IF s = <<>> THEN 0
    ELSE 10 * DecValue(SubSeq(s, 1, Len(s) - 1))
         + (CHOOSE d \in 0..9 :
               <<"0", "1", "2", "3", "4", "5", "6", "7", "8", "9">>[d + 1]
                   = s[Len(s)])

----------------------------------------------------------------------------
(* internal/validator *)

InvalidInput == "InvalidInput"
IPAddress == "IPAddress"
Domain == "Domain"

\* the 256-character limit of ValidateInput
MaxInputLen == 256

\* one field of a dotted quad: 1 to 3 digits, no leading zero, at most 255
IsIPv4Field(f) ==
    /\ Len(f) \in 1..3
    /\ \A p \in 1..Len(f) : f[p] \in Digits
    /\ (Len(f) > 1 => f[1] # "0")
    /\ DecValue(f) <= 255

ParseIPv4(s) ==
    LET fs == Split(s, ".")
    IN  Len(fs) = 4 /\ \A k \in 1..4 : IsIPv4Field(fs[k])

\* one group of an IPv6 address: 1 to 4 hexadecimal digits
IsIPv6Group(g) ==
    /\ Len(g) \in 1..4
    /\ \A p \in 1..Len(g) : g[p] \in Digits \cup HexLetters

\* the number of 16-bit groups a colon-separated list stands for, or -1 when
\* it is malformed; a dotted quad is accepted as the last item of the address
IPv6Groups(s, last) ==
    IF s = <<>> THEN 0
    ELSE LET gs == Split(s, ":")
             n == Len(gs)
         IN  IF \A k \in 1..n : IsIPv6Group(gs[k]) THEN n
             ELSE IF /\ last
                     /\ \A k \in 1..(n - 1) : IsIPv6Group(gs[k])
                     /\ ParseIPv4(gs[n])
                  THEN n + 1
             ELSE -1

ParseIPv6(s) ==
    LET dbl == {p \in 1..(Len(s) - 1) : s[p] = ":" /\ s[p + 1] = ":"}
    IN  IF dbl = {} THEN IPv6Groups(s, TRUE) = 8
        ELSE /\ Cardinality(dbl) = 1
             /\ LET p == CHOOSE q \in dbl : TRUE
                    left == IPv6Groups(SubSeq(s, 1, p - 1), FALSE)
                    right == IPv6Groups(SubSeq(s, p + 2, Len(s)), TRUE)
                IN  left >= 0 /\ right >= 0 /\ left + right <= 7

\* net.ParseIP(s) != nil: the first '.' or ':' decides the family
ParseIP(s) ==
    LET seps == {p \in 1..Len(s) : s[p] \in {".", ":"}}
    IN  /\ seps # {}
        /\ LET p == CHOOSE q \in seps : \A r \in seps : q <= r
           IN  IF s[p] = "." THEN ParseIPv4(s) ELSE ParseIPv6(s)

\* ^([a-zA-Z0-9]([a-zA-Z0-9\-]{0,61}[a-zA-Z0-9])?\.)+[a-zA-Z]{2,}$
IsDomainLabel(l) ==
    /\ Len(l) \in 1..63
    /\ l[1] \in Letters \cup Digits
    /\ l[Len(l)] \in Letters \cup Digits
    /\ \A p \in 1..Len(l) : l[p] \in Letters \cup Digits \cup {"-"}

isValidDomain(domain) ==
    LET ls == Split(domain, ".")
        n == Len(ls)
    IN  /\ n >= 2
        /\ \A k \in 1..(n - 1) : IsDomainLabel(ls[k])
        /\ Len(ls[n]) >= 2
        /\ \A p \in 1..Len(ls[n]) : ls[n][p] \in Letters

\* validator.extractHostPort: <<host, port>>
ValidatorExtractHostPort(input) ==
    IF input # <<>> /\ input[1] = "["
    THEN LET closeBracket == Index(input, "]")
         IN  IF closeBracket = 0 THEN <<<<>>, <<>>>>
             ELSE IF Len(input) > closeBracket
                  THEN IF input[closeBracket + 1] = ":"
                       THEN <<SubSeq(input, 2, closeBracket - 1),
                              SubSeq(input, closeBracket + 2, Len(input))>>
                       ELSE <<<<>>, <<>>>>
                  ELSE <<SubSeq(input, 2, closeBracket - 1), <<>>>>
    ELSE LET lastColon == LastIndex(input, ":")
         IN  IF lastColon = 0 THEN <<input, <<>>>>
             ELSE IF ParseIP(input) THEN <<input, <<>>>>
             ELSE IF Contains(SubSeq(input, 1, lastColon - 1), <<":">>)
                  THEN <<<<>>, <<>>>>
             ELSE <<SubSeq(input, 1, lastColon - 1),
                    SubSeq(input, lastColon + 1, Len(input))>>

\* a ValidateInput that does not look at the port
ValidateInputAnyPort(raw) ==
    IF Len(raw) > MaxInputLen THEN InvalidInput
    ELSE LET input == TrimSpace(raw)
             host == ValidatorExtractHostPort(input)[1]
         IN  IF input = <<>> THEN InvalidInput
             ELSE IF host = <<>> THEN InvalidInput
             ELSE IF ParseIP(host) THEN IPAddress
             ELSE IF isValidDomain(host) THEN Domain
             ELSE InvalidInput

ValidateInput(raw) ==
    IF Len(raw) > MaxInputLen THEN InvalidInput
    ELSE LET input == TrimSpace(raw)
             hp == ValidatorExtractHostPort(input)
             host == hp[1]
             port == hp[2]
         IN  IF input = <<>> THEN InvalidInput
             ELSE IF host = <<>> THEN InvalidInput
             ELSE IF port # <<>> /\ \E p \in 1..Len(port) : port[p] \notin Digits
                  THEN InvalidInput
             ELSE IF ParseIP(host) THEN IPAddress
             ELSE IF isValidDomain(host) THEN Domain
             ELSE InvalidInput

----------------------------------------------------------------------------
(* Configuration and request inputs *)

Str_ping == <<"p", "i", "n", "g">>
Str_uname == <<"u", "n", "a", "m", "e">>
Str_dig == <<"d", "i", "g">>
Str_noop == <<"n", "o", "o", "p">>

\* config.Commands: name -> [Template, IgnoreTarget]
ConfigCommands ==
    (Str_ping :> [Template |-> <<"p", "i", "n", "g", " ", "-", "c", " ", "4">>,
                  IgnoreTarget |-> FALSE])
    @@ (Str_uname :> [Template |-> <<"u", "n", "a", "m", "e", " ", "-", "a">>,
                      IgnoreTarget |-> TRUE])
    @@ (Str_noop :> [Template |-> <<>>, IgnoreTarget |-> TRUE])

Session1 == <<"s", "1">>
Session2 == <<"s", "2">>
Sessions == {Session1, Session2}
\* the session of the client that sends the stop requests
StopSessions == {Session2}

Target_ip == <<"1", ".", "1", ".", "1", ".", "1">>
Target_domain == <<"a", ".", "c", "o", ":", "8", "0">>
Target_bad == <<"x", ";", "y">>
Target_none == <<>>

\* the requests a client sends in the model
Requests ==
    { [command |-> Str_ping, target |-> Target_ip, session |-> Session1],
      [command |-> Str_ping, target |-> Target_domain, session |-> Session1],
      [command |-> Str_ping, target |-> Target_bad, session |-> Session1],
      [command |-> Str_ping, target |-> Target_none, session |-> Session2],
      [command |-> Str_dig, target |-> Target_ip, session |-> Session1],
      [command |-> Str_uname, target |-> Target_none, session |-> Session2],
      [command |-> Str_noop, target |-> Target_none, session |-> Session1] }
\* the requests of the model with two requests in flight: the first one
\* is a ping, the second one the same ping or a command without target
FirstRequests ==
    { [command |-> Str_ping, target |-> Target_ip, session |-> Session1] }
PairRequests ==
    { [command |-> Str_ping, target |-> Target_ip, session |-> Session1],
      [command |-> Str_uname, target |-> Target_none, session |-> Session2] }
NoReq == [command |-> <<>>, target |-> <<>>, session |-> <<>>]

\* what validator.ResolveDomainWithVersion returns to the executor: (ips, err)
Addr_v4 == <<"9", ".", "9", ".", "9", ".", "9">>
Addr_v6 == <<":", ":", "1">>
ResolveResults ==
    { [ips |-> <<>>, err |-> TRUE],
      [ips |-> <<>>, err |-> FALSE],
      [ips |-> <<Addr_v4>>, err |-> FALSE] }

----------------------------------------------------------------------------
(* internal/executor: pure functions *)

shellOperators == << <<"|">>, <<"&", "&">>, <<"|", "|">>, <<">">>, <<"<">>, <<";">> >>

\* executor.extractHostPort: <<host, port>>
extractHostPort(target) ==
    IF target # <<>> /\ target[1] = "["
    THEN LET closeBracket == Index(target, "]")
         IN  IF closeBracket = 0 THEN <<target, <<>>>>
             ELSE <<SubSeq(target, 2, closeBracket - 1),
                    IF Len(target) > closeBracket /\ target[closeBracket + 1] = ":"
                    THEN SubSeq(target, closeBracket + 2, Len(target))
                    ELSE <<>> >>
    ELSE LET lastColon == LastIndex(target, ":")
         IN  IF lastColon = 0 THEN <<target, <<>>>>
             ELSE IF Count(target, ":") > 1 THEN <<target, <<>>>>
             ELSE <<SubSeq(target, 1, lastColon - 1),
                    SubSeq(target, lastColon + 1, Len(target))>>

\* a ReattachPort that puts no brackets round an IPv6 address
ReattachPortNoBrackets(resolvedIP, port) ==
    IF port # <<>> THEN resolvedIP \o <<":">> \o port ELSE resolvedIP

\* the target after resolution (ExecuteWithIPVersion, lines 105-117)
ReattachPort(resolvedIP, port) ==
    IF port # <<>>
    THEN IF Contains(resolvedIP, <<":">>)
         THEN <<"[">> \o resolvedIP \o <<"]", ":">> \o port
         ELSE resolvedIP \o <<":">> \o port
    ELSE resolvedIP

\* FullCommand appending the target to every template
FullCommandAppendAlways(cmdConfig, resolvedTarget) ==
    cmdConfig.Template \o <<" ">> \o resolvedTarget

\* the command line (ExecuteWithIPVersion, lines 122-125)
FullCommand(cmdConfig, resolvedTarget) ==
    IF resolvedTarget # <<>> /\ ~cmdConfig.IgnoreTarget
    THEN cmdConfig.Template \o <<" ">> \o resolvedTarget
    ELSE cmdConfig.Template

generateCommandID(command, target, sessionID) ==
    IF target # <<>>
    THEN command \o <<"-">> \o target \o <<"-">> \o sessionID
    ELSE command \o <<"-">> \o sessionID

\* createCommand: the argv of the child process
createCommand(fullCommand) ==
    IF \E k \in 1..Len(shellOperators) : Contains(fullCommand, shellOperators[k])
    THEN << <<"/", "b", "i", "n", "/", "b", "a", "s", "h">>, <<"-", "c">>, fullCommand >>
    ELSE Fields(fullCommand)

CommandIDs == {generateCommandID(r.command, r.target, r.session) : r \in Requests}
\* a commandID no request of the model produces
UnknownID == <<"z">>
\* the commandIDs the stop requests carry when two requests are in flight
PairStopIDs ==
    {generateCommandID(r.command, r.target, r.session) : r \in FirstRequests}
\* the commandIDs the stop requests of the model carry
StopIDs ==
    {generateCommandID(r.command, r.target, r.session) : r \in PairRequests}
        \cup {UnknownID}

----------------------------------------------------------------------------
(* executor.Output *)

DataOutput(pipe) ==
    [Output |-> "line", Error |-> "", IsError |-> (pipe = "stderr"),
     IsComplete |-> FALSE, IsStopped |-> FALSE]
\* an error that ends the invocation; msg is the fixed part of the text (the
\* code appends the name, the host or the error)
ErrorOutput(msg) ==
    [Output |-> "", Error |-> msg, IsError |-> TRUE,
     IsComplete |-> TRUE, IsStopped |-> FALSE]
StoppedOutput ==
    [Output |-> "*** Stopped ***", Error |-> "", IsError |-> FALSE,
     IsComplete |-> TRUE, IsStopped |-> TRUE]
FailedOutput ==
    [Output |-> "Command failed", Error |-> "", IsError |-> TRUE,
     IsComplete |-> TRUE, IsStopped |-> FALSE]
CompleteOutput ==
    [Output |-> "", Error |-> "", IsError |-> FALSE,
     IsComplete |-> TRUE, IsStopped |-> FALSE]

----------------------------------------------------------------------------
(* State *)

VARIABLES
    transport,        \* which handler is built in: "ws" or "sse"
    req,              \* the request each handler goroutine serves
    fullCommand,      \* the command line of each invocation
    hpc,              \* position of each handler goroutine
    rpc,              \* position of each runCommand goroutine
    rdpc,             \* position of each streamOutput goroutine
    pipeLines,        \* lines of the child process not yet read from each pipe
    proc,             \* the child process of each invocation
    emitted,          \* every Output sent on outputChan, in order
    consumed,         \* how many of them the handler has received
    chanClosed,       \* outputChan is closed
    stopChan,         \* the stop channel (capacity 1) holds a value
    rdDone,           \* stdoutDone / stderrDone hold a value
    stopped,          \* runCommand's stopped channel is closed
    activeCommands,   \* Executor.activeCommands
    stopSignals,      \* Executor.stopSignals
    handlerCommands,  \* Handler.commandSessions (ws) / Handler.activeCommands (sse)
    clientMsgs,       \* the messages each handler has written to its client
    stopResp,         \* the last stop request and its answer
    stopAccepted,     \* the invocations a stop request was accepted for
                      \* while their process was running
    linesWritten,     \* lines handed out to child processes so far
    kills,            \* the processes each runCommand has called Kill on
    panicked,         \* an unrecovered panic has ended the program
    rateLimiter,      \* the handler's RateLimiter: enabled and sessions
    now,              \* time.Now(), in seconds
    checks,           \* every checkRateLimit call so far, per session
    servers,          \* DNSResolver.servers: Latency and LastTest of each
    currentIndex,     \* DNSResolver.currentIndex
    probe,            \* position of each probe goroutine of testAllServers
    rounds,           \* probe rounds completed
    resolve,          \* the Resolve call: position, locals, what it received
    queries,          \* the endpoints whose resolveDoH is running for Resolve
    resultChan,       \* resultChan of Resolve
    ctxDone,          \* the context of the Resolve call is done
    executed,         \* the Execute calls made so far and what they built
    created,          \* the createCommand call made, with its argv
    locks,            \* the mutexes: what each task runs, and who holds what
    limiter,          \* the ws RateLimiter under concurrent callers: the
                      \* sessions map, the SessionRateLimit objects and
                      \* the position of each caller
    doh               \* the goroutines and result channels of a Resolve
                      \* call and of its resolveDoH calls

vars == <<transport, req, fullCommand, hpc, rpc, rdpc, pipeLines, proc,
          emitted, consumed, chanClosed, stopChan, rdDone, stopped,
          activeCommands, stopSignals, handlerCommands, clientMsgs, stopResp,
          stopAccepted, linesWritten, kills, panicked, rateLimiter, now,
          checks, servers, currentIndex, probe, rounds, resolve, queries,
          resultChan, ctxDone, executed, created, locks, limiter, doh>>

\* RateLimiter.sessions of a handler that has served no request
NoSessions == [s \in {} |-> <<>>]

\* no stop request yet
NoResp == [id |-> <<>>, ok |-> FALSE]

\* an absent map entry
NoEntry == [owner |-> NoInv, cmd |-> NoInv]

commandID(i) == generateCommandID(req[i].command, req[i].target, req[i].session)

\* the Outputs sitting in outputChan
ChanLen(i) == Len(emitted[i]) - consumed[i]
\* the process is gone: cmd.Wait returns (an error unless the exit status is
\* 0), closes the read ends of both pipes and its result is sent on done
Exited(i) == proc[i] \in {"exit0", "exit1", "killed"}

InitWith(written) ==
    /\ transport \in {"ws", "sse"}
    /\ req = [i \in Invs |-> NoReq]
    /\ fullCommand = [i \in Invs |-> <<>>]
    /\ hpc = [i \in Invs |-> "idle"]
    /\ rpc = [i \in Invs |-> "none"]
    /\ rdpc = [i \in Invs |-> [k \in Pipes |-> "none"]]
    /\ pipeLines = [i \in Invs |-> [k \in Pipes |-> 0]]
    /\ proc = [i \in Invs |-> "none"]
    /\ emitted = [i \in Invs |-> <<>>]
    /\ consumed = [i \in Invs |-> 0]
    /\ chanClosed = [i \in Invs |-> FALSE]
    /\ stopChan = [i \in Invs |-> FALSE]
    /\ rdDone = [i \in Invs |-> [k \in Pipes |-> FALSE]]
    /\ stopped = [i \in Invs |-> FALSE]
    /\ activeCommands = [c \in CommandIDs |-> NoEntry]
    /\ stopSignals = [c \in CommandIDs |-> NoInv]
    /\ handlerCommands = [c \in CommandIDs |-> NoInv]
    /\ clientMsgs = [i \in Invs |-> <<>>]
    /\ stopResp = NoResp
    /\ stopAccepted = {}
    /\ linesWritten = written
    /\ kills = [i \in Invs |-> <<>>]
    /\ panicked = FALSE


----------------------------------------------------------------------------
(* Messages to the client *)

\* handler.go sendStreamingResponse
WsMsg(success, error, output, isComplete, stoppedFlag) ==
    [type |-> "command_output", success |-> success, error |-> error,
     output |-> output, is_complete |-> isComplete, stopped |-> stoppedFlag]

\* sse handler sendSSEMessage
SseMsg(type, success, error, output, stoppedFlag) ==
    [type |-> type, success |-> success, error |-> error,
     output |-> output, is_complete |-> (type = "complete"),
     stopped |-> stoppedFlag]

\* the terminal error message of a request that is refused
RefuseMsg(error) ==
    IF transport = "ws" THEN WsMsg(FALSE, error, "", TRUE, FALSE)
    ELSE SseMsg("complete", FALSE, error, "", FALSE)

\* the first message of an accepted request, carrying the command_id
AcceptMsg ==
    IF transport = "ws" THEN WsMsg(TRUE, "", "", FALSE, FALSE)
    ELSE SseMsg("output", TRUE, "", "", FALSE)

\* resp.Error of the ws handler: set by a stderr line and never cleared
WsRespError(i) ==
    IF \E p \in 1..Len(clientMsgs[i]) : clientMsgs[i][p].error = "line"
    THEN "line" ELSE ""

\* the messages the handler's loop writes for one Output
WsForward(i, output) ==
    IF output.IsStopped
    THEN <<WsMsg(TRUE, "", "*** Stopped ***", TRUE, TRUE)>>
    ELSE IF output.IsComplete
    THEN <<WsMsg(TRUE, WsRespError(i), output.Output, TRUE, FALSE)>>
    ELSE IF output.IsError /\ output.Output # ""
    THEN <<WsMsg(FALSE, output.Output, "", FALSE, FALSE)>>
    ELSE IF output.Output # ""
    THEN <<WsMsg(TRUE, WsRespError(i), output.Output, FALSE, FALSE)>>
    ELSE <<>>

SseForward(i, output) ==
    IF output.IsStopped
    THEN <<SseMsg("output", FALSE, "", "*** Stopped ***", TRUE),
           SseMsg("complete", FALSE, "", "", TRUE)>>
    ELSE IF output.IsComplete
    THEN IF output.IsError
         THEN <<SseMsg("complete", FALSE, output.Error, "", FALSE)>>
         ELSE (IF output.Output # ""
               THEN <<SseMsg("output", FALSE, "", output.Output, FALSE)>>
               ELSE <<>>)
              \o <<SseMsg("complete", TRUE, "", "", FALSE)>>
    ELSE IF output.IsError
    THEN <<SseMsg("error", FALSE, output.Error, "", FALSE)>>
    ELSE <<SseMsg("output", FALSE, "", output.Output, FALSE)>>

----------------------------------------------------------------------------
(* Executor.ExecuteWithIPVersion up to the command line (lines 55-125) *)

ExecFail(msg) == [failed |-> TRUE, output |-> ErrorOutput(msg), fullCommand |-> <<>>]

\* Execute without the check for an empty address list
ExecutePrepareNoZeroCheck(command, target, res) ==
    IF command \notin DOMAIN ConfigCommands
    THEN ExecFail("Command not found")
    ELSE LET cmdConfig == ConfigCommands[command]
             isDomain == /\ target # <<>>
                         /\ ~cmdConfig.IgnoreTarget
                         /\ ValidateInput(target) = Domain
         IN  IF isDomain /\ res.err
             THEN ExecFail("Failed to resolve domain")
             ELSE [failed |-> FALSE, output |-> CompleteOutput,
                   fullCommand |->
                       FullCommand(cmdConfig,
                           IF isDomain /\ Len(res.ips) > 0
                           THEN ReattachPort(res.ips[1], extractHostPort(target)[2])
                           ELSE target)]

ExecutePrepare(command, target, res) ==
    IF command \notin DOMAIN ConfigCommands
    THEN ExecFail("Command not found")
    ELSE LET cmdConfig == ConfigCommands[command]
             isDomain == /\ target # <<>>
                         /\ ~cmdConfig.IgnoreTarget
                         /\ ValidateInput(target) = Domain
         IN  IF isDomain /\ res.err
             THEN ExecFail("Failed to resolve domain")
             ELSE IF isDomain /\ Len(res.ips) = 0
             THEN ExecFail("No IP addresses found for domain")
             ELSE [failed |-> FALSE, output |-> CompleteOutput,
                   fullCommand |->
                       FullCommand(cmdConfig,
                           IF isDomain
                           THEN ReattachPort(res.ips[1], extractHostPort(target)[2])
                           ELSE target)]

\* a handler that leaves the validation of the target to Execute
HandlerRefusalNoValidate(command, target) ==
    IF command \notin DOMAIN ConfigCommands
    THEN "Command not found"
    ELSE ""

\* the handler's own checks before it calls Execute: "" when they pass
HandlerRefusal(command, target) ==
    IF command \notin DOMAIN ConfigCommands
    THEN "Command not found"
    ELSE IF /\ ~ConfigCommands[command].IgnoreTarget
            /\ ValidateInput(target) = InvalidInput
    THEN "Invalid target: must be an IP address or domain name"
    ELSE ""

-----------------------------------------------------------------------------
(* The DNS resolver: DoH queries *)

\* the record types of a DoH query
RecordTypes == {"A", "AAAA"}
\* the numeric type of an answer: A, AAAA, and CNAME as one that matches
\* neither
AnswerType(recordType) == IF recordType = "A" THEN 1 ELSE 28
TypeCNAME == 5

\* who a result comes from when it is no endpoint: nobody, the context, the
\* platform resolver
FromNone == -1
FromCtx == -2
FromPlatform == -3

\* a parsed address: its family and who answered with it
IP(v, by) == [v |-> v, by |-> by]
\* the data of an answer that is no address
BadData == IP(0, FromNone)
\* net.ParseIP of the data of an answer
NetParseIP(data) == IF data = BadData THEN <<>> ELSE <<data>>

\* what an endpoint can answer to one GET: no answer within the timeout of
\* the client (or the context is done), a status other than 200, a body
\* that is no JSON, or an Answer array
NetErr == [kind |-> "neterr", status |-> 0, json |-> FALSE, answer |-> <<>>]
Responses(s) ==
    {NetErr,
     [kind |-> "http", status |-> 500, json |-> TRUE, answer |-> <<>>],
     [kind |-> "http", status |-> 200, json |-> FALSE, answer |-> <<>>],
     [kind |-> "http", status |-> 200, json |-> TRUE, answer |-> <<>>],
     [kind |-> "http", status |-> 200, json |-> TRUE, answer |->
        <<[data |-> BadData, type |-> 1], [data |-> BadData, type |-> 28]>>],
     [kind |-> "http", status |-> 200, json |-> TRUE, answer |->
        <<[data |-> IP(4, s), type |-> TypeCNAME],
          [data |-> IP(4, s), type |-> 1]>>],
     [kind |-> "http", status |-> 200, json |-> TRUE, answer |->
        <<[data |-> IP(6, s), type |-> 28]>>]}

RECURSIVE MatchingIPs(_, _)
MatchingIPs(answer, recordType) ==
    IF answer = <<>> THEN <<>>
    ELSE LET a == Head(answer)
             rest == MatchingIPs(Tail(answer), recordType)
         IN  IF a.type = AnswerType(recordType)
             THEN NetParseIP(a.data) \o rest
             ELSE rest

queryDoH(resp, recordType) ==
    IF resp.kind = "neterr" THEN [ips |-> <<>>, err |-> TRUE]
    ELSE IF resp.status # 200 THEN [ips |-> <<>>, err |-> TRUE]
    ELSE IF ~resp.json THEN [ips |-> <<>>, err |-> TRUE]
    ELSE [ips |-> MatchingIPs(resp.answer, recordType), err |-> FALSE]

\* a result of resolveDoH, of the platform resolver or of Resolve: the
\* addresses, the error, who gave it, and whether the A and the AAAA query
\* came back with addresses
Result(ips, err, from, gotA, gotAAAA) ==
    [ips |-> ips, err |-> err, from |-> from, gotA |-> gotA,
     gotAAAA |-> gotAAAA]
NoResult == Result(<<>>, FALSE, FromNone, FALSE, FALSE)
CtxErr == Result(<<>>, TRUE, FromCtx, FALSE, FALSE)

HasIPs(q) == ~q.err /\ Len(q.ips) > 0

\* resolveDoH for the endpoint s whose A and AAAA queries get the responses
\* respA and respAAAA, the query of type first answering first; cancelled:
\* the select takes ctx.Done() before it has received both results
resolveDoH(s, respA, respAAAA, first, cancelled) ==
    LET qA == queryDoH(respA, "A")
        qAAAA == queryDoH(respAAAA, "AAAA")
        q1 == IF first = "A" THEN qA ELSE qAAAA
        q2 == IF first = "A" THEN qAAAA ELSE qA
        allIPs == (IF q1.err THEN <<>> ELSE q1.ips)
                  \o (IF q2.err THEN <<>> ELSE q2.ips)
    IN  IF cancelled THEN Result(<<>>, TRUE, s, FALSE, FALSE)
        ELSE IF Len(allIPs) = 0
        THEN Result(<<>>, TRUE, s, FALSE, FALSE)
        ELSE Result(allIPs, FALSE, s, HasIPs(qA), HasIPs(qAAAA))

\* every result resolveDoH can return for the endpoint s while its context
\* is live
DohResults(s) ==
    {resolveDoH(s, respA, respAAAA, first, FALSE) :
        respA \in Responses(s), respAAAA \in Responses(s),
        first \in RecordTypes}
\* a query whose context is done fails, and so does resolveDoH
DohAborted(s) == resolveDoH(s, NetErr, NetErr, "A", TRUE)

\* net.DefaultResolver.LookupIP: the addresses of the platform resolver, or
\* its error
LookupResults ==
    {Result(<<IP(4, FromPlatform)>>, FALSE, FromPlatform, FALSE, FALSE),
     Result(<<>>, TRUE, FromPlatform, FALSE, FALSE)}

-----------------------------------------------------------------------------
(* The DNS resolver: state *)

\* the indices of DNSResolver.servers (Alibaba, Google)
NumServers == 2
Servers == 0..(NumServers - 1)

\* the latency recorded for a probe that failed (10 * time.Second), and the
\* latencies a probe that succeeded within its 3 s can record
PenaltyLatency == 10
ProbeLatencies == {1, 2}

\* NewDNSResolver; probeErr is not a field of DNSServer: it keeps the err of
\* the endpoint's last probe
NewServers ==
    [s \in Servers |-> [Latency |-> 0, LastTest |-> 0, probeErr |-> FALSE]]

RECURSIVE FastestFromSlowest(_, _, _)
\* FastestFrom with the comparison turned round
FastestFromSlowest(srv, i, fastestIndex) ==
    IF i >= NumServers THEN fastestIndex
    ELSE IF srv[i].Latency > srv[fastestIndex].Latency
         THEN FastestFromSlowest(srv, i + 1, i)
         ELSE FastestFromSlowest(srv, i + 1, fastestIndex)

RECURSIVE FastestFrom(_, _, _)
\* the loop of selectFastestServer from index i on, fastestIndex being the
\* index chosen so far
FastestFrom(srv, i, fastestIndex) ==
    IF i >= NumServers THEN fastestIndex
    ELSE IF srv[i].Latency < srv[fastestIndex].Latency
         THEN FastestFrom(srv, i + 1, i)
         ELSE FastestFrom(srv, i + 1, fastestIndex)

FastestIndex(srv) == FastestFrom(srv, 0, 0)

\* no Resolve call yet
ResolveIdle ==
    [pc |-> "idle", currentServer |-> 0, i |-> 0, result |-> NoResult,
     received |-> [s \in Servers |-> NoResult], lookup |-> NoResult,
     expiredWith |-> {}]

-----------------------------------------------------------------------------
(* The mutexes *)

\* the goroutines of the lock model
LockTasks == 1..MaxLockTasks

\* Executor.commandsLock and stopLock, the ws Handler's clientsLock, the sse
\* Handler's commandsLock, RateLimiter.mu and DNSResolver.mutex
Mutexes == {"e.commandsLock", "e.stopLock", "h.clientsLock", "h.commandsLock",
            "rl.mu", "r.mutex"}

\* an executor whose storeCommand takes the stop lock inside the command
\* lock and whose removeCommand takes them the other way round
ExecutorLockingNested ==
    [storeCommand |-> << <<"Lock", "e.commandsLock">>, <<"Lock", "e.stopLock">>,
                         <<"Unlock", "e.stopLock">>, <<"Unlock", "e.commandsLock">> >>,
     runCommandStart |-> << <<"Lock", "e.commandsLock">>, <<"Unlock", "e.commandsLock">> >>,
     stopCommand |-> << <<"RLock", "e.commandsLock">>, <<"RUnlock", "e.commandsLock">> >>,
     removeCommand |-> << <<"Lock", "e.stopLock">>, <<"Lock", "e.commandsLock">>,
                          <<"Unlock", "e.commandsLock">>, <<"Unlock", "e.stopLock">> >>,
     Stop |-> << <<"RLock", "e.stopLock">>, <<"RUnlock", "e.stopLock">> >>]

\* the lock operations of the executor's functions, in program order
ExecutorLocking ==
    [storeCommand |-> << <<"Lock", "e.commandsLock">>, <<"Unlock", "e.commandsLock">>,
                         <<"Lock", "e.stopLock">>, <<"Unlock", "e.stopLock">> >>,
     runCommandStart |-> << <<"Lock", "e.commandsLock">>, <<"Unlock", "e.commandsLock">> >>,
     stopCommand |-> << <<"RLock", "e.commandsLock">>, <<"RUnlock", "e.commandsLock">> >>,
     removeCommand |-> << <<"Lock", "e.commandsLock">>, <<"Unlock", "e.commandsLock">>,
                          <<"Lock", "e.stopLock">>, <<"Unlock", "e.stopLock">> >>,
     Stop |-> << <<"RLock", "e.stopLock">>, <<"RUnlock", "e.stopLock">> >>]

\* the lock operations of the ws handler's functions and of its rate
\* limiter
WsHandlerLocking ==
    [handleWebSocket |-> << <<"Lock", "h.clientsLock">>, <<"Unlock", "h.clientsLock">> >>,
     pingClient |-> << <<"Lock", "h.clientsLock">>, <<"Unlock", "h.clientsLock">> >>,
     clientSession |-> << <<"RLock", "h.clientsLock">>, <<"RUnlock", "h.clientsLock">> >>,
     checkRateLimit |-> << <<"RLock", "rl.mu">>, <<"RUnlock", "rl.mu">>,
                           <<"Lock", "rl.mu">>, <<"Unlock", "rl.mu">> >>,
     getRemainingTime |-> << <<"RLock", "rl.mu">>, <<"RUnlock", "rl.mu">>,
                             <<"Lock", "rl.mu">>, <<"Unlock", "rl.mu">> >>,
     setCommandSession |-> << <<"Lock", "h.clientsLock">>, <<"Unlock", "h.clientsLock">> >>,
     sendStreamingResponse |-> << <<"RLock", "h.clientsLock">>,
                                  <<"RUnlock", "h.clientsLock">> >>,
     deleteCommandSession |-> << <<"Lock", "h.clientsLock">>,
                                 <<"Unlock", "h.clientsLock">> >>]

\* the lock operations of the sse handler's functions and of its rate
\* limiter
SseHandlerLocking ==
    [setActiveCommand |-> << <<"Lock", "h.commandsLock">>, <<"Unlock", "h.commandsLock">> >>,
     removeActiveCommand |-> << <<"Lock", "h.commandsLock">>,
                                <<"Unlock", "h.commandsLock">> >>,
     stopActiveCommand |-> << <<"Lock", "h.commandsLock">>,
                              <<"Unlock", "h.commandsLock">> >>,
     checkRateLimit |-> << <<"Lock", "rl.mu">>, <<"Unlock", "rl.mu">> >>,
     getRemainingTime |-> << <<"RLock", "rl.mu">>, <<"RUnlock", "rl.mu">> >>]

\* the lock operations of the resolver's functions
DnsLocking ==
    [probe |-> << <<"Lock", "r.mutex">>, <<"Unlock", "r.mutex">> >>,
     selectFastestServer |-> << <<"Lock", "r.mutex">>, <<"Unlock", "r.mutex">> >>,
     Resolve |-> << <<"RLock", "r.mutex">>, <<"RUnlock", "r.mutex">> >>,
     GetCurrentServer |-> << <<"RLock", "r.mutex">>, <<"RUnlock", "r.mutex">> >>]

\* what the goroutines of the program do with the mutexes: the lock
\* operations of each, through the functions it calls, in program order
LockPaths ==
    [wsHandleCommand |->
         WsHandlerLocking.clientSession \o WsHandlerLocking.checkRateLimit
         \o DnsLocking.Resolve \o ExecutorLocking.storeCommand
         \o WsHandlerLocking.setCommandSession
         \o WsHandlerLocking.sendStreamingResponse
         \o WsHandlerLocking.deleteCommandSession,
     wsRateLimited |->
         WsHandlerLocking.clientSession \o WsHandlerLocking.checkRateLimit
         \o WsHandlerLocking.getRemainingTime
         \o WsHandlerLocking.sendStreamingResponse,
     wsHandleStopCommand |-> ExecutorLocking.Stop,
     wsConnection |->
         WsHandlerLocking.handleWebSocket \o WsHandlerLocking.pingClient,
     sseHandleExecCommand |->
         SseHandlerLocking.checkRateLimit \o DnsLocking.Resolve
         \o ExecutorLocking.storeCommand \o SseHandlerLocking.setActiveCommand
         \o SseHandlerLocking.removeActiveCommand,
     sseRateLimited |->
         SseHandlerLocking.checkRateLimit \o SseHandlerLocking.getRemainingTime,
     sseHandleStopCommand |-> SseHandlerLocking.stopActiveCommand,
     runCommand |->
         ExecutorLocking.runCommandStart \o ExecutorLocking.removeCommand,
     runCommandStopped |->
         ExecutorLocking.runCommandStart \o ExecutorLocking.stopCommand
         \o ExecutorLocking.removeCommand,
     testAllServers |-> DnsLocking.probe \o DnsLocking.selectFastestServer,
     probe |-> DnsLocking.probe]

-----------------------------------------------------------------------------
(* The ws RateLimiter with concurrent callers: data *)

Callers == 1..MaxCallers
\* a nil *SessionRateLimit: the map has no entry
NoObj == 0
\* the SessionRateLimit objects a behaviour allocates, in order
Objs == 1..MaxChecks
\* the remaining time of a check for which getRemainingTime has not been
\* called
NoRemaining == -1

\* a goroutine that is not in the rate limiter
IdleCaller ==
    [pos |-> "idle", session |-> <<>>, obj |-> NoObj, remaining |-> NoRemaining]

-----------------------------------------------------------------------------
(* The goroutines and channels of Resolve and resolveDoH: data *)

\* a channel with room for one result of every A and AAAA query less one
DohChanCapOne == Cardinality(RecordTypes) - 1

\* resolveDoH: resultChan := make(chan queryResult, 2)
DohChanCap == Cardinality(RecordTypes)
\* Resolve: resultChan := make(chan result, len(r.servers))
ResultChanCap == NumServers

\* a goroutine that sends one result: not started, at work, at its send
\* with a result that is good or not, or past it (late: the receiver had
\* returned when the result was sent)
SenderNotStarted == [pc |-> "none", ok |-> FALSE]
SenderStarted == [pc |-> "query", ok |-> FALSE]
\* a resolveDoH call: its loop, the results it has received, its two query
\* goroutines and its channel
DohNotCalled ==
    [pc |-> "none", i |-> 0, ok |-> FALSE,
     query |-> [rt \in RecordTypes |-> SenderNotStarted], resultChan |-> <<>>]
DohCalled ==
    [pc |-> "collect", i |-> 0, ok |-> FALSE,
     query |-> [rt \in RecordTypes |-> SenderStarted], resultChan |-> <<>>]
\* the Resolve call: its position, the results its loop has received, the
\* goroutines of the other endpoints and its channel
ResolveNotCalled ==
    [pc |-> "idle", i |-> 0, server |-> [s \in Servers |-> SenderNotStarted],
     resultChan |-> <<>>]

-----------------------------------------------------------------------------
(* Initial states *)

\* no request has reached the rate limiter
RateIdle ==
    /\ rateLimiter = [enabled |-> TRUE, sessions |-> NoSessions]
    /\ now = 0
    /\ checks = [s \in Sessions |-> <<>>]

\* the resolver as NewDNSResolver builds it, with no probe and no Resolve
\* call
DnsIdle ==
    /\ servers = NewServers
    /\ currentIndex = 0
    /\ probe = [s \in Servers |-> "idle"]
    /\ rounds = 0
    /\ resolve = ResolveIdle
    /\ queries = {}
    /\ resultChan = <<>>
    /\ ctxDone = FALSE

\* no Execute call made outside the handlers
CmdIdle ==
    /\ executed = <<>>
    /\ created = <<>>

\* no goroutine is in a function that takes a mutex
LockIdle ==
    locks = [task |-> [t \in LockTasks |-> [proc |-> "none", pos |-> 0]],
             held |-> [l \in Mutexes |-> {}]]

\* no handleCommand goroutine is in the rate limiter, whose map is empty
LimiterIdle ==
    limiter = [sessions |-> [s \in Sessions |-> NoObj],
               timestamps |-> [o \in Objs |-> <<>>],
               allocated |-> 0,
               calls |-> 0,
               caller |-> [c \in Callers |-> IdleCaller]]

\* no Resolve call has started a goroutine
QueriesIdle == doh = [resolve |-> ResolveNotCalled, call |-> [s \in Servers |-> DohNotCalled]]

Idle == RateIdle /\ DnsIdle /\ CmdIdle /\ LockIdle /\ LimiterIdle /\ QueriesIdle

Init == InitWith(0) /\ Idle
\* the child processes write no output
InitPair == InitWith(MaxLines) /\ Idle

----------------------------------------------------------------------------
(* The handler goroutine of a request: handleCommand / handleExecCommand *)

\* the request arrives; the handler checks it and calls Execute, which fails
\* or builds the command line (the rate limiter is disabled in this
\* configuration, so checkRateLimit accepts)
HandleExec(i, r) ==
    /\ ~panicked
    /\ hpc[i] = "idle"
    /\ \A j \in Invs : j < i => hpc[j] # "idle"
    /\ req' = [req EXCEPT ![i] = r]
    /\ IF HandlerRefusal(r.command, r.target) # ""
       THEN /\ clientMsgs' = [clientMsgs EXCEPT
                  ![i] = <<RefuseMsg(HandlerRefusal(r.command, r.target))>>]
            /\ hpc' = [hpc EXCEPT ![i] = "done"]
            /\ UNCHANGED <<fullCommand, emitted>>
       ELSE \E res \in ResolveResults :
               LET e == ExecutePrepare(r.command, r.target, res)
               IN  IF e.failed
                   THEN /\ emitted' = [emitted EXCEPT ![i] = <<e.output>>]
                        /\ clientMsgs' = [clientMsgs EXCEPT
                              ![i] = <<RefuseMsg("Failed to execute command")>>]
                        /\ hpc' = [hpc EXCEPT ![i] = "done"]
                        /\ UNCHANGED fullCommand
                   ELSE /\ fullCommand' = [fullCommand EXCEPT ![i] = e.fullCommand]
                        /\ hpc' = [hpc EXCEPT ![i] = "store_active"]
                        /\ UNCHANGED <<emitted, clientMsgs>>
    /\ UNCHANGED <<transport, rpc, rdpc, pipeLines, proc, consumed,
                   chanClosed, stopChan, rdDone, stopped, activeCommands,
                   stopSignals, handlerCommands, stopResp, stopAccepted,
                   linesWritten, kills, panicked, rateLimiter, now, checks,
                   servers, currentIndex, probe, rounds, resolve, queries,
                   resultChan, ctxDone, executed, created, locks, limiter, doh>>

\* storeCommand, first critical section
StoreActive(i) ==
    /\ ~panicked
    /\ hpc[i] = "store_active"
    /\ activeCommands' = [activeCommands EXCEPT
          ![commandID(i)] = [owner |-> i, cmd |-> NoInv]]
    /\ hpc' = [hpc EXCEPT ![i] = "store_stop"]
    /\ UNCHANGED <<transport, req, fullCommand, rpc, rdpc, pipeLines, proc,
                   emitted, consumed, chanClosed, stopChan, rdDone, stopped,
                   stopSignals, handlerCommands, clientMsgs, stopResp,
                   stopAccepted, linesWritten, kills, panicked, rateLimiter,
                   now, checks, servers, currentIndex, probe, rounds, resolve,
                   queries, resultChan, ctxDone, executed, created, locks,
                   limiter, doh>>

\* storeCommand, second critical section; go runCommand; Execute returns
StoreStop(i) ==
    /\ ~panicked
    /\ hpc[i] = "store_stop"
    /\ stopSignals' = [stopSignals EXCEPT ![commandID(i)] = i]
    /\ rpc' = [rpc EXCEPT ![i] = "start"]
    /\ hpc' = [hpc EXCEPT ![i] = "registered"]
    /\ UNCHANGED <<transport, req, fullCommand, rdpc, pipeLines, proc,
                   emitted, consumed, chanClosed, stopChan, rdDone, stopped,
                   activeCommands, handlerCommands, clientMsgs, stopResp,
                   stopAccepted, linesWritten, kills, panicked, rateLimiter,
                   now, checks, servers, currentIndex, probe, rounds, resolve,
                   queries, resultChan, ctxDone, executed, created, locks,
                   limiter, doh>>

\* the handler records the command and sends the command_id to the client
HandlerRegister(i) ==
    /\ ~panicked
    /\ hpc[i] = "registered"
    /\ handlerCommands' = [handlerCommands EXCEPT ![commandID(i)] = i]
    /\ clientMsgs' = [clientMsgs EXCEPT ![i] = Append(@, AcceptMsg)]
    /\ hpc' = [hpc EXCEPT ![i] = "stream"]
    /\ UNCHANGED <<transport, req, fullCommand, rpc, rdpc, pipeLines, proc,
                   emitted, consumed, chanClosed, stopChan, rdDone, stopped,
                   activeCommands, stopSignals, stopResp, stopAccepted,
                   linesWritten, kills, panicked, rateLimiter, now, checks,
                   servers, currentIndex, probe, rounds, resolve, queries,
                   resultChan, ctxDone, executed, created, locks, limiter, doh>>

\* one iteration of `for output := range outputChan`; the loop ends at a
\* terminal Output or at a closed channel, and the deferred delete runs
HandlerRecv(i) ==
    /\ ~panicked
    /\ hpc[i] = "stream"
    /\ ChanLen(i) > 0 \/ chanClosed[i]
    /\ IF ChanLen(i) > 0
       THEN LET output == emitted[i][consumed[i] + 1]
            IN  /\ consumed' = [consumed EXCEPT ![i] = @ + 1]
                /\ clientMsgs' = [clientMsgs EXCEPT ![i] =
                       @ \o (IF transport = "ws" THEN WsForward(i, output)
                             ELSE SseForward(i, output))]
                /\ IF output.IsStopped \/ output.IsComplete
                   THEN /\ hpc' = [hpc EXCEPT ![i] = "done"]
                        /\ handlerCommands' =
                              [handlerCommands EXCEPT ![commandID(i)] = NoInv]
                   ELSE UNCHANGED <<hpc, handlerCommands>>
       ELSE /\ hpc' = [hpc EXCEPT ![i] = "done"]
            /\ handlerCommands' = [handlerCommands EXCEPT ![commandID(i)] = NoInv]
            /\ UNCHANGED <<consumed, clientMsgs>>
    /\ UNCHANGED <<transport, req, fullCommand, rpc, rdpc, pipeLines, proc,
                   emitted, chanClosed, stopChan, rdDone, stopped,
                   activeCommands, stopSignals, stopResp, stopAccepted,
                   linesWritten, kills, panicked, rateLimiter, now, checks,
                   servers, currentIndex, probe, rounds, resolve, queries,
                   resultChan, ctxDone, executed, created, locks, limiter, doh>>

----------------------------------------------------------------------------
(* Executor.runCommand *)

\* createCommand, StdoutPipe, StderrPipe, Start.  createCommand returns nil
\* for a command line without fields, and cmd.StdoutPipe() on the nil Cmd
\* is a nil pointer dereference: the goroutine panics and its deferred
\* function runs.  Any of the three calls can fail, and then runCommand
\* reports the error (one Output of the same shape for each of them) and
\* returns.  Otherwise the process runs and will write
\* some lines to its pipes, the started Cmd is recorded (lines 204-209), and
\* the two streamOutput goroutines and the goroutine that waits for the
\* process are started
RunStart(i) ==
    /\ ~panicked
    /\ rpc[i] = "start"
    /\ \/ /\ createCommand(fullCommand[i]) = <<>>
          /\ rpc' = [rpc EXCEPT ![i] = "panic_remove_active"]
          /\ UNCHANGED <<emitted, proc, pipeLines, linesWritten, activeCommands, rdpc>>
       \/ /\ createCommand(fullCommand[i]) # <<>>
          /\ ChanLen(i) < ChanCap
          /\ emitted' = [emitted EXCEPT
                ![i] = Append(@, ErrorOutput("Failed to start command"))]
          /\ rpc' = [rpc EXCEPT ![i] = "remove_active"]
          /\ UNCHANGED <<proc, pipeLines, linesWritten, activeCommands, rdpc>>
       \/ /\ createCommand(fullCommand[i]) # <<>>
          /\ proc' = [proc EXCEPT ![i] = "running"]
          /\ \E nOut \in 0..MaxLines, nErr \in 0..MaxLines :
                /\ linesWritten + nOut + nErr <= MaxLines
                /\ linesWritten' = linesWritten + nOut + nErr
                /\ pipeLines' = [pipeLines EXCEPT
                      ![i] = [k \in Pipes |-> IF k = "stdout" THEN nOut ELSE nErr]]
          /\ activeCommands' = [activeCommands EXCEPT
                ![commandID(i)] = [owner |-> i, cmd |-> i]]
          /\ rdpc' = [rdpc EXCEPT ![i] = [k \in Pipes |-> "scan"]]
          /\ rpc' = [rpc EXCEPT ![i] = "select"]
          /\ UNCHANGED emitted
    /\ UNCHANGED <<transport, req, fullCommand, hpc, consumed, chanClosed,
                   stopChan, rdDone, stopped, stopSignals, handlerCommands,
                   clientMsgs, stopResp, stopAccepted, kills, panicked,
                   rateLimiter, now, checks, servers, currentIndex, probe,
                   rounds, resolve, queries, resultChan, ctxDone, executed,
                   created, locks, limiter, doh>>

\* stopCommand: the invocation whose process is killed, the one whose Cmd
\* the table holds for the commandID (NoInv when there is nothing to kill)
stopCommand(id) ==
    LET activeCmd == activeCommands[id]
    IN  IF activeCmd.owner = NoInv \/ activeCmd.cmd = NoInv THEN NoInv
        ELSE activeCmd.cmd

\* select, case <-stopChan: stopCommand, then close(stopped)
RunStopBranch(i) ==
    /\ ~panicked
    /\ rpc[i] = "select"
    /\ stopChan[i]
    /\ stopChan' = [stopChan EXCEPT ![i] = FALSE]
    /\ LET p == stopCommand(commandID(i))
       IN  IF p = NoInv
           THEN UNCHANGED <<proc, kills>>
           ELSE /\ proc' = [proc EXCEPT ![p] = IF @ = "running" THEN "killed" ELSE @]
                /\ kills' = [kills EXCEPT ![i] = Append(@, p)]
    /\ stopped' = [stopped EXCEPT ![i] = TRUE]
    /\ rpc' = [rpc EXCEPT ![i] = "wait_stop"]
    /\ UNCHANGED <<transport, req, fullCommand, hpc, rdpc, pipeLines, emitted,
                   consumed, chanClosed, rdDone, activeCommands, stopSignals,
                   handlerCommands, clientMsgs, stopResp, stopAccepted,
                   linesWritten, panicked, rateLimiter, now, checks, servers,
                   currentIndex, probe, rounds, resolve, queries, resultChan,
                   ctxDone, executed, created, locks, limiter, doh>>

\* a stop branch that goes back to the select after the Stopped Output
RunStoppedAgain(i) ==
    /\ ~panicked
    /\ rpc[i] = "wait_stop"
    /\ \A k \in Pipes : rdDone[i][k]
    /\ ChanLen(i) < ChanCap
    /\ emitted' = [emitted EXCEPT ![i] = Append(@, StoppedOutput)]
    /\ rpc' = [rpc EXCEPT ![i] = "select"]
    /\ UNCHANGED <<transport, req, fullCommand, hpc, rdpc, pipeLines, proc,
                   consumed, chanClosed, stopChan, rdDone, stopped,
                   activeCommands, stopSignals, handlerCommands, clientMsgs,
                   stopResp, stopAccepted, linesWritten, kills, panicked,
                   rateLimiter, now, checks, servers, currentIndex, probe,
                   rounds, resolve, queries, resultChan, ctxDone, executed,
                   created, locks, limiter, doh>>

\* the stop branch, continued: <-stdoutDone, <-stderrDone, the Stopped
\* Output, return
RunStopped(i) ==
    /\ ~panicked
    /\ rpc[i] = "wait_stop"
    /\ \A k \in Pipes : rdDone[i][k]
    /\ ChanLen(i) < ChanCap
    /\ rdDone' = [rdDone EXCEPT ![i] = [k \in Pipes |-> FALSE]]
    /\ emitted' = [emitted EXCEPT ![i] = Append(@, StoppedOutput)]
    /\ rpc' = [rpc EXCEPT ![i] = "remove_active"]
    /\ UNCHANGED <<transport, req, fullCommand, hpc, rdpc, pipeLines, proc,
                   consumed, chanClosed, stopChan, stopped, activeCommands,
                   stopSignals, handlerCommands, clientMsgs, stopResp,
                   stopAccepted, linesWritten, kills, panicked, rateLimiter,
                   now, checks, servers, currentIndex, probe, rounds, resolve,
                   queries, resultChan, ctxDone, executed, created, locks,
                   limiter, doh>>

\* an exit branch that does not wait for the two readers
RunExitBranchEarly(i) ==
    /\ ~panicked
    /\ rpc[i] = "select"
    /\ Exited(i)
    /\ ChanLen(i) < ChanCap
    /\ emitted' = [emitted EXCEPT ![i] =
          Append(@, IF proc[i] = "exit0" THEN CompleteOutput ELSE FailedOutput)]
    /\ rpc' = [rpc EXCEPT ![i] = "remove_active"]
    /\ UNCHANGED <<transport, req, fullCommand, hpc, rdpc, pipeLines, proc,
                   consumed, chanClosed, stopChan, rdDone, stopped,
                   activeCommands, stopSignals, handlerCommands, clientMsgs,
                   stopResp, stopAccepted, linesWritten, kills, panicked,
                   rateLimiter, now, checks, servers, currentIndex, probe,
                   rounds, resolve, queries, resultChan, ctxDone, executed,
                   created, locks, limiter, doh>>

\* select, case err := <-done: <-stdoutDone, <-stderrDone, the Complete
\* Output (a failure if Wait returned an error), return
RunExitBranch(i) ==
    /\ ~panicked
    /\ rpc[i] = "select"
    /\ Exited(i)
    /\ \A k \in Pipes : rdDone[i][k]
    /\ ChanLen(i) < ChanCap
    /\ rdDone' = [rdDone EXCEPT ![i] = [k \in Pipes |-> FALSE]]
    /\ emitted' = [emitted EXCEPT ![i] =
          Append(@, IF proc[i] = "exit0" THEN CompleteOutput ELSE FailedOutput)]
    /\ rpc' = [rpc EXCEPT ![i] = "remove_active"]
    /\ UNCHANGED <<transport, req, fullCommand, hpc, rdpc, pipeLines, proc,
                   consumed, chanClosed, stopChan, stopped, activeCommands,
                   stopSignals, handlerCommands, clientMsgs, stopResp,
                   stopAccepted, linesWritten, kills, panicked, rateLimiter,
                   now, checks, servers, currentIndex, probe, rounds, resolve,
                   queries, resultChan, ctxDone, executed, created, locks,
                   limiter, doh>>

\* a removeCommand that forgets the activeCommands entry
RemoveActiveLeak(i) ==
    /\ ~panicked
    /\ rpc[i] \in {"remove_active", "panic_remove_active"}
    /\ rpc' = [rpc EXCEPT ![i] = IF @ = "remove_active" THEN "remove_stop"
                                 ELSE "panic_remove_stop"]
    /\ UNCHANGED <<transport, req, fullCommand, hpc, rdpc, pipeLines, proc,
                   emitted, consumed, chanClosed, stopChan, rdDone, stopped,
                   activeCommands, stopSignals, handlerCommands, clientMsgs,
                   stopResp, stopAccepted, linesWritten, kills, panicked,
                   rateLimiter, now, checks, servers, currentIndex, probe,
                   rounds, resolve, queries, resultChan, ctxDone, executed,
                   created, locks, limiter, doh>>

\* deferred removeCommand, first critical section
RemoveActive(i) ==
    /\ ~panicked
    /\ rpc[i] \in {"remove_active", "panic_remove_active"}
    /\ activeCommands' = [activeCommands EXCEPT ![commandID(i)] = NoEntry]
    /\ rpc' = [rpc EXCEPT ![i] = IF @ = "remove_active" THEN "remove_stop"
                                 ELSE "panic_remove_stop"]
    /\ UNCHANGED <<transport, req, fullCommand, hpc, rdpc, pipeLines, proc,
                   emitted, consumed, chanClosed, stopChan, rdDone, stopped,
                   stopSignals, handlerCommands, clientMsgs, stopResp,
                   stopAccepted, linesWritten, kills, panicked, rateLimiter,
                   now, checks, servers, currentIndex, probe, rounds, resolve,
                   queries, resultChan, ctxDone, executed, created, locks,
                   limiter, doh>>

\* a removeCommand that forgets the stopSignals entry
RemoveStopLeak(i) ==
    /\ ~panicked
    /\ rpc[i] \in {"remove_stop", "panic_remove_stop"}
    /\ chanClosed' = [chanClosed EXCEPT ![i] = TRUE]
    /\ panicked' = (rpc[i] = "panic_remove_stop")
    /\ rpc' = [rpc EXCEPT ![i] = "done"]
    /\ UNCHANGED <<transport, req, fullCommand, hpc, rdpc, pipeLines, proc,
                   emitted, consumed, stopChan, rdDone, stopped, activeCommands,
                   stopSignals, handlerCommands, clientMsgs, stopResp,
                   stopAccepted, linesWritten, kills, rateLimiter, now, checks,
                   servers, currentIndex, probe, rounds, resolve, queries,
                   resultChan, ctxDone, executed, created, locks, limiter, doh>>

\* deferred removeCommand, second critical section, and close(outputChan);
\* the goroutine returns, or the panic that was unwinding ends the program
RemoveStop(i) ==
    /\ ~panicked
    /\ rpc[i] \in {"remove_stop", "panic_remove_stop"}
    /\ stopSignals' = [stopSignals EXCEPT ![commandID(i)] = NoInv]
    /\ chanClosed' = [chanClosed EXCEPT ![i] = TRUE]
    /\ panicked' = (rpc[i] = "panic_remove_stop")
    /\ rpc' = [rpc EXCEPT ![i] = "done"]
    /\ UNCHANGED <<transport, req, fullCommand, hpc, rdpc, pipeLines, proc,
                   emitted, consumed, stopChan, rdDone, stopped, activeCommands,
                   handlerCommands, clientMsgs, stopResp, stopAccepted,
                   linesWritten, kills, rateLimiter, now, checks, servers,
                   currentIndex, probe, rounds, resolve, queries, resultChan,
                   ctxDone, executed, created, locks, limiter, doh>>

----------------------------------------------------------------------------
(* The child process *)

\* the process exits by itself, with status 0 or not
ProcExit(i) ==
    /\ ~panicked
    /\ proc[i] = "running"
    /\ \E st \in {"exit0", "exit1"} : proc' = [proc EXCEPT ![i] = st]
    /\ UNCHANGED <<transport, req, fullCommand, hpc, rpc, rdpc, pipeLines,
                   emitted, consumed, chanClosed, stopChan, rdDone, stopped,
                   activeCommands, stopSignals, handlerCommands, clientMsgs,
                   stopResp, stopAccepted, linesWritten, kills, panicked,
                   rateLimiter, now, checks, servers, currentIndex, probe,
                   rounds, resolve, queries, resultChan, ctxDone, executed,
                   created, locks, limiter, doh>>

----------------------------------------------------------------------------
(* Executor.streamOutput *)

\* a streamOutput that returns without the deferred done <- true
ReaderReturnSilent(i, k) ==
    /\ rdpc' = [rdpc EXCEPT ![i][k] = "done"]
    /\ UNCHANGED rdDone

\* the deferred done <- true
ReaderReturn(i, k) ==
    /\ rdpc' = [rdpc EXCEPT ![i][k] = "done"]
    /\ rdDone' = [rdDone EXCEPT ![i][k] = TRUE]

\* a streamOutput that signals done when it sees stopped closed and goes on
\* to send the line it has read
ReaderScanDoneFirst(i, k) ==
    /\ ~panicked
    /\ rdpc[i][k] = "scan"
    /\ \/ /\ pipeLines[i][k] > 0
          /\ pipeLines' = [pipeLines EXCEPT ![i][k] = @ - 1]
          /\ rdpc' = [rdpc EXCEPT ![i][k] = "send"]
          /\ rdDone' = [rdDone EXCEPT ![i][k] = stopped[i]]
       \/ /\ Exited(i)
          /\ ReaderReturn(i, k)
          /\ UNCHANGED pipeLines
    /\ UNCHANGED <<transport, req, fullCommand, hpc, rpc, proc, emitted,
                   consumed, chanClosed, stopChan, stopped, activeCommands,
                   stopSignals, handlerCommands, clientMsgs, stopResp,
                   stopAccepted, linesWritten, kills, panicked, rateLimiter,
                   now, checks, servers, currentIndex, probe, rounds, resolve,
                   queries, resultChan, ctxDone, executed, created, locks,
                   limiter, doh>>

\* scanner.Scan() and the outer select: Scan yields the next line, and the
\* goroutine returns if stopped is closed and goes on to send otherwise; or
\* Scan yields false (the process is gone and the pipe is drained, broken by
\* the kill or closed by Wait) and the goroutine returns
ReaderScan(i, k) ==
    /\ ~panicked
    /\ rdpc[i][k] = "scan"
    /\ \/ /\ pipeLines[i][k] > 0
          /\ pipeLines' = [pipeLines EXCEPT ![i][k] = @ - 1]
          /\ IF stopped[i]
             THEN ReaderReturn(i, k)
             ELSE /\ rdpc' = [rdpc EXCEPT ![i][k] = "send"]
                  /\ UNCHANGED rdDone
       \/ /\ Exited(i)
          /\ ReaderReturn(i, k)
          /\ UNCHANGED pipeLines
    /\ UNCHANGED <<transport, req, fullCommand, hpc, rpc, proc, emitted,
                   consumed, chanClosed, stopChan, stopped, activeCommands,
                   stopSignals, handlerCommands, clientMsgs, stopResp,
                   stopAccepted, linesWritten, kills, panicked, rateLimiter,
                   now, checks, servers, currentIndex, probe, rounds, resolve,
                   queries, resultChan, ctxDone, executed, created, locks,
                   limiter, doh>>

\* the inner select: either case that is ready may be taken; a send on a
\* closed channel panics
ReaderSend(i, k) ==
    /\ ~panicked
    /\ rdpc[i][k] = "send"
    /\ \/ /\ stopped[i]
          /\ ReaderReturn(i, k)
          /\ UNCHANGED <<emitted, panicked>>
       \/ /\ ChanLen(i) < ChanCap \/ chanClosed[i]
          /\ IF chanClosed[i]
             THEN panicked' = TRUE /\ UNCHANGED emitted
             ELSE /\ emitted' = [emitted EXCEPT ![i] = Append(@, DataOutput(k))]
                  /\ UNCHANGED panicked
          /\ rdpc' = [rdpc EXCEPT ![i][k] = "scan"]
          /\ UNCHANGED rdDone
    /\ UNCHANGED <<transport, req, fullCommand, hpc, rpc, pipeLines, proc,
                   consumed, chanClosed, stopChan, stopped, activeCommands,
                   stopSignals, handlerCommands, clientMsgs, stopResp,
                   stopAccepted, linesWritten, kills, rateLimiter, now, checks,
                   servers, currentIndex, probe, rounds, resolve, queries,
                   resultChan, ctxDone, executed, created, locks, limiter, doh>>

----------------------------------------------------------------------------
(* Stop requests *)

\* Executor.Stop: the result, and the invocation whose stop channel takes
\* the signal
Stop(id) ==
    LET stopChanOf == IF id \in CommandIDs THEN stopSignals[id] ELSE NoInv
    IN  IF stopChanOf = NoInv THEN [ok |-> FALSE, target |-> NoInv]
        ELSE IF stopChan[stopChanOf] THEN [ok |-> FALSE, target |-> NoInv]
        ELSE [ok |-> TRUE, target |-> stopChanOf]

\* a handleStopCommand that serves only the session that started the command
WsHandleStopCommandOwner(by, id) ==
    /\ ~panicked
    /\ transport = "ws"
    /\ id # <<>>
    /\ LET r == Stop(id)
       IN  IF r.ok /\ req[r.target].session = by
           THEN stopChan' = [stopChan EXCEPT ![r.target] = TRUE]
           ELSE UNCHANGED stopChan
    /\ UNCHANGED <<transport, req, fullCommand, hpc, rpc, rdpc, pipeLines,
                   proc, emitted, consumed, chanClosed, rdDone, stopped,
                   activeCommands, stopSignals, handlerCommands, clientMsgs,
                   linesWritten, kills, panicked, rateLimiter, now, checks,
                   servers, currentIndex, probe, rounds, resolve, queries,
                   resultChan, ctxDone, executed, created, locks, limiter, doh>>

\* ws handler: handleStopCommand, a stop_command message from session `by`
WsHandleStopCommand(by, id) ==
    /\ ~panicked
    /\ transport = "ws"
    /\ id # <<>>
    /\ LET r == Stop(id)
       IN  IF r.ok
           THEN stopChan' = [stopChan EXCEPT ![r.target] = TRUE]
           ELSE UNCHANGED stopChan
    /\ UNCHANGED <<transport, req, fullCommand, hpc, rpc, rdpc, pipeLines,
                   proc, emitted, consumed, chanClosed, rdDone, stopped,
                   activeCommands, stopSignals, handlerCommands, clientMsgs,
                   linesWritten, kills, panicked, rateLimiter, now, checks,
                   servers, currentIndex, probe, rounds, resolve, queries,
                   resultChan, ctxDone, executed, created, locks, limiter, doh>>

\* sse handler: stopActiveCommand: the result, and the invocation whose
\* handler entry is closed and deleted
stopActiveCommand(id) ==
    LET ch == IF id \in CommandIDs THEN handlerCommands[id] ELSE NoInv
    IN  [ok |-> ch # NoInv, target |-> ch]

\* sse handler: handleStopCommand, POST /api/stop from session `by`
SseHandleStopCommand(by, id) ==
    /\ ~panicked
    /\ transport = "sse"
    /\ id # <<>>
    /\ LET r == stopActiveCommand(id)
       IN  IF r.ok
           THEN handlerCommands' = [handlerCommands EXCEPT ![id] = NoInv]
           ELSE UNCHANGED handlerCommands
    /\ UNCHANGED <<transport, req, fullCommand, hpc, rpc, rdpc, pipeLines,
                   proc, emitted, consumed, chanClosed, stopChan, rdDone,
                   stopped, activeCommands, stopSignals, clientMsgs,
                   linesWritten, kills, panicked, rateLimiter, now, checks,
                   servers, currentIndex, probe, rounds, resolve, queries,
                   resultChan, ctxDone, executed, created, locks, limiter, doh>>

\* the answer r to a stop request for id goes on record
RecordStop(id, r) ==
    /\ stopResp' = [id |-> id, ok |-> r.ok]
    /\ stopAccepted' = IF r.ok /\ proc[r.target] = "running"
                       THEN stopAccepted \cup {r.target}
                       ELSE stopAccepted

\* a stop request and its answer
WsStopRequest(by, id) ==
    /\ WsHandleStopCommand(by, id)
    /\ RecordStop(id, Stop(id))

SseStopRequest(by, id) ==
    /\ SseHandleStopCommand(by, id)
    /\ RecordStop(id, stopActiveCommand(id))

\* a stop request whose answer is not put on record
WsStopUnrecorded(by, id) ==
    /\ WsHandleStopCommand(by, id)
    /\ UNCHANGED <<stopResp, stopAccepted>>

SseStopUnrecorded(by, id) ==
    /\ SseHandleStopCommand(by, id)
    /\ UNCHANGED <<stopResp, stopAccepted>>

----------------------------------------------------------------------------
(* Specifications *)

\* one request in flight
Next ==
    \/ \E r \in Requests : HandleExec(1, r)
    \/ StoreActive(1)
    \/ StoreStop(1)
    \/ HandlerRegister(1)
    \/ HandlerRecv(1)
    \/ RunStart(1)
    \/ RunStopBranch(1)
    \/ RunStopped(1)
    \/ RunExitBranch(1)
    \/ RemoveActive(1)
    \/ RemoveStop(1)
    \/ ProcExit(1)
    \/ \E k \in Pipes : ReaderScan(1, k)
    \/ \E k \in Pipes : ReaderSend(1, k)
    \/ \E by \in StopSessions, id \in StopIDs : WsStopRequest(by, id)
    \/ \E by \in StopSessions, id \in StopIDs : SseStopRequest(by, id)

Spec == Init /\ [][Next]_vars

\* two requests in flight whose child processes write no output; the
\* answers to the stop requests are not recorded
NextPair ==
    \/ \E r \in FirstRequests : HandleExec(1, r)
    \/ \E r \in PairRequests : HandleExec(2, r)
    \/ \E i \in Invs : StoreActive(i)
    \/ \E i \in Invs : StoreStop(i)
    \/ \E i \in Invs : HandlerRegister(i)
    \/ \E i \in Invs : HandlerRecv(i)
    \/ \E i \in Invs : RunStart(i)
    \/ \E i \in Invs : RunStopBranch(i)
    \/ \E i \in Invs : RunStopped(i)
    \/ \E i \in Invs : RunExitBranch(i)
    \/ \E i \in Invs : RemoveActive(i)
    \/ \E i \in Invs : RemoveStop(i)
    \/ \E i \in Invs : ProcExit(i)
    \/ \E i \in Invs, k \in Pipes : ReaderScan(i, k)
    \/ \E by \in StopSessions, id \in PairStopIDs : WsStopUnrecorded(by, id)
    \/ \E by \in StopSessions, id \in PairStopIDs : SseStopUnrecorded(by, id)

SpecPair == InitPair /\ [][NextPair]_vars

\* a step of the goroutines of invocation i once cmd.Start has been called:
\* Execute and the handler's receive loop, runCommand after the start, and
\* the two streamOutput goroutines
Scheduled(i) ==
    \/ StoreActive(i)
    \/ StoreStop(i)
    \/ HandlerRegister(i)
    \/ HandlerRecv(i)
    \/ RunStopBranch(i)
    \/ RunStopped(i)
    \/ RunExitBranch(i)
    \/ RemoveActive(i)
    \/ RemoveStop(i)
    \/ \E k \in Pipes : ReaderScan(i, k)
    \/ \E k \in Pipes : ReaderSend(i, k)

\* the same, or the process of the invocation exiting
Progress(i) ==
    \/ Scheduled(i)
    \/ ProcExit(i)

\* one ping in flight, the answers to the stop requests not recorded
NextLive ==
    \/ \E r \in FirstRequests : HandleExec(1, r)
    \/ RunStart(1)
    \/ Progress(1)
    \/ \E by \in StopSessions, id \in PairStopIDs : WsStopUnrecorded(by, id)
    \/ \E by \in StopSessions, id \in PairStopIDs : SseStopUnrecorded(by, id)

\* the same with goroutines that are scheduled as long as they can take a
\* step, a consumer that keeps receiving and a process that exits
SpecLive == Init /\ [][NextLive]_vars /\ WF_vars(Progress(1))

\* two requests in flight with goroutines that are scheduled as long as they
\* can take a step and consumers that keep receiving; the processes need
\* not exit by themselves
SpecPairLive ==
    InitPair /\ [][NextPair]_vars /\ \A i \in Invs : WF_vars(Scheduled(i))
-----------------------------------------------------------------------------
(* The session rate limiter of the two handlers *)

\* rate_limit.max_commands and rate_limit.time_window (seconds) of the
\* configuration
maxCommands == 2
timeWindow == 3

filterRecentTimestamps(timestamps, t, window) ==
    SelectSeq(timestamps, LAMBDA ts : t - ts < window)

\* the map with the entry of session s set to timestamps
PutSession(sessions, s, timestamps) ==
    [x \in DOMAIN sessions \cup {s} |->
        IF x = s THEN timestamps ELSE sessions[x]]

\* checkRateLimit of the ws handler: the answer and the limiter it leaves
WsCheckRateLimit(rl, s, t) ==
    IF ~rl.enabled THEN [ok |-> TRUE, rl |-> rl]
    ELSE IF s \notin DOMAIN rl.sessions
    THEN [ok |-> TRUE,
          rl |-> [rl EXCEPT !.sessions = PutSession(@, s, <<>>)]]
    ELSE LET recent == filterRecentTimestamps(rl.sessions[s], t, timeWindow)
         IN  IF Len(recent) >= maxCommands
             THEN [ok |-> FALSE,
                   rl |-> [rl EXCEPT !.sessions = PutSession(@, s, recent)]]
             ELSE [ok |-> TRUE,
                   rl |-> [rl EXCEPT !.sessions =
                               PutSession(@, s, Append(recent, t))]]

\* checkRateLimit of the sse handler
SseCheckRateLimit(rl, s, t) ==
    IF ~rl.enabled THEN [ok |-> TRUE, rl |-> rl]
    ELSE LET timestamps == IF s \in DOMAIN rl.sessions
                           THEN rl.sessions[s] ELSE <<>>
             validTimestamps == SelectSeq(timestamps,
                                    LAMBDA ts : t - ts < timeWindow)
         IN  IF Len(validTimestamps) >= maxCommands
             THEN [ok |-> FALSE,
                   rl |-> [rl EXCEPT !.sessions =
                               PutSession(@, s, validTimestamps)]]
             ELSE [ok |-> TRUE,
                   rl |-> [rl EXCEPT !.sessions =
                               PutSession(@, s, Append(validTimestamps, t))]]

\* getRemainingTime of the ws handler: the answer and the limiter it
\* leaves, whose list it prunes
WsGetRemainingTime(rl, s, t) ==
    IF s \notin DOMAIN rl.sessions THEN [remaining |-> 0, rl |-> rl]
    ELSE LET timestamps == filterRecentTimestamps(rl.sessions[s], t, timeWindow)
             pruned == [rl EXCEPT !.sessions = PutSession(@, s, timestamps)]
         IN  IF Len(timestamps) = 0 THEN [remaining |-> 0, rl |-> pruned]
             ELSE LET elapsed == t - timestamps[1]
                      remaining == timeWindow - elapsed
                  IN  [remaining |-> IF remaining < 0 THEN 0 ELSE remaining,
                       rl |-> pruned]

\* getRemainingTime of the sse handler, which reads the list as it is
SseGetRemainingTime(rl, s, t) ==
    IF ~rl.enabled THEN [remaining |-> 0, rl |-> rl]
    ELSE IF s \notin DOMAIN rl.sessions \/ Len(rl.sessions[s]) = 0
    THEN [remaining |-> 0, rl |-> rl]
    ELSE LET oldestTimestamp == rl.sessions[s][1]
             elapsed == t - oldestTimestamp
             remaining == timeWindow - elapsed
         IN  [remaining |-> IF remaining < 0 THEN 0 ELSE remaining, rl |-> rl]

TotalChecks == Len(checks[Session1]) + Len(checks[Session2])

\* a request of session s reaches the handler, which asks the limiter
CheckRateLimit(s, check) ==
    /\ TotalChecks < MaxChecks
    /\ rateLimiter' = check.rl
    /\ checks' = [checks EXCEPT ![s] =
                      Append(@, [at |-> now, ok |-> check.ok,
                                 remaining |-> NoRemaining])]
    /\ UNCHANGED <<transport, req, fullCommand, hpc, rpc, rdpc, pipeLines,
                   proc, emitted, consumed, chanClosed, stopChan, rdDone,
                   stopped, activeCommands, stopSignals, handlerCommands,
                   clientMsgs, stopResp, stopAccepted, linesWritten, kills,
                   panicked, now, servers, currentIndex, probe, rounds, resolve,
                   queries, resultChan, ctxDone, executed, created, locks,
                   limiter, doh>>

\* the handler whose k-th check of session s was rejected calls
\* getRemainingTime for its answer to the client
RateLimitExceeded(s, k, get) ==
    /\ k \in 1..Len(checks[s])
    /\ ~checks[s][k].ok
    /\ checks[s][k].remaining = NoRemaining
    /\ rateLimiter' = get.rl
    /\ checks' = [checks EXCEPT ![s][k].remaining = get.remaining]
    /\ UNCHANGED <<transport, req, fullCommand, hpc, rpc, rdpc, pipeLines,
                   proc, emitted, consumed, chanClosed, stopChan, rdDone,
                   stopped, activeCommands, stopSignals, handlerCommands,
                   clientMsgs, stopResp, stopAccepted, linesWritten, kills,
                   panicked, now, servers, currentIndex, probe, rounds, resolve,
                   queries, resultChan, ctxDone, executed, created, locks,
                   limiter, doh>>

WsRateLimitExceeded(s, k) ==
    /\ transport = "ws"
    /\ RateLimitExceeded(s, k, WsGetRemainingTime(rateLimiter, s, now))

SseRateLimitExceeded(s, k) ==
    /\ transport = "sse"
    /\ RateLimitExceeded(s, k, SseGetRemainingTime(rateLimiter, s, now))

WsCheck(s) ==
    /\ transport = "ws"
    /\ CheckRateLimit(s, WsCheckRateLimit(rateLimiter, s, now))

SseCheck(s) ==
    /\ transport = "sse"
    /\ CheckRateLimit(s, SseCheckRateLimit(rateLimiter, s, now))

\* a second passes
Tick ==
    /\ now < MaxTime
    /\ now' = now + 1
    /\ UNCHANGED <<transport, req, fullCommand, hpc, rpc, rdpc, pipeLines,
                   proc, emitted, consumed, chanClosed, stopChan, rdDone,
                   stopped, activeCommands, stopSignals, handlerCommands,
                   clientMsgs, stopResp, stopAccepted, linesWritten, kills,
                   panicked, rateLimiter, checks, servers, currentIndex, probe,
                   rounds, resolve, queries, resultChan, ctxDone, executed,
                   created, locks, limiter, doh>>

\* the limiter is configured once, when the handler is built
InitRate ==
    /\ InitWith(0)
    /\ rateLimiter \in [enabled : BOOLEAN, sessions : {NoSessions}]
    /\ now = 0
    /\ checks = [s \in Sessions |-> <<>>]
    /\ DnsIdle
    /\ CmdIdle
    /\ LockIdle
    /\ LimiterIdle
    /\ QueriesIdle

NextRate ==
    \/ \E s \in Sessions : WsCheck(s)
    \/ \E s \in Sessions : SseCheck(s)
    \/ \E s \in Sessions, k \in 1..MaxChecks : WsRateLimitExceeded(s, k)
    \/ \E s \in Sessions, k \in 1..MaxChecks : SseRateLimitExceeded(s, k)
    \/ Tick

SpecRate == InitRate /\ [][NextRate]_vars

-----------------------------------------------------------------------------
(* The DNS resolver: probing *)

\* testAllServers starts one probe goroutine per endpoint
TestAllServers ==
    /\ rounds < MaxRounds
    /\ \A s \in Servers : probe[s] = "idle"
    /\ probe' = [s \in Servers |-> "running"]
    /\ UNCHANGED <<transport, req, fullCommand, hpc, rpc, rdpc, pipeLines,
                   proc, emitted, consumed, chanClosed, stopChan, rdDone,
                   stopped, activeCommands, stopSignals, handlerCommands,
                   clientMsgs, stopResp, stopAccepted, linesWritten, kills,
                   panicked, rateLimiter, now, checks, servers, currentIndex,
                   rounds, resolve, queries, resultChan, ctxDone, executed,
                   created, locks, limiter, doh>>

\* a probe goroutine that records the elapsed time whether or not its query
\* has failed
ProbeReturnNoPenalty(s) ==
    /\ probe[s] = "running"
    /\ \E r \in DohResults(s) \cup {DohAborted(s)}, elapsed \in ProbeLatencies :
          servers' = [servers EXCEPT ![s] =
                         [Latency |-> elapsed,
                          LastTest |-> rounds + 1,
                          probeErr |-> r.err]]
    /\ probe' = [probe EXCEPT ![s] = "done"]
    /\ UNCHANGED <<transport, req, fullCommand, hpc, rpc, rdpc, pipeLines,
                   proc, emitted, consumed, chanClosed, stopChan, rdDone,
                   stopped, activeCommands, stopSignals, handlerCommands,
                   clientMsgs, stopResp, stopAccepted, linesWritten, kills,
                   panicked, rateLimiter, now, checks, currentIndex, rounds,
                   resolve, queries, resultChan, ctxDone, executed, created,
                   locks, limiter, doh>>

\* a probe goroutine: its resolveWithServer returns after elapsed seconds
\* and the goroutine writes the latency
ProbeReturn(s) ==
    /\ probe[s] = "running"
    /\ \E r \in DohResults(s) \cup {DohAborted(s)}, elapsed \in ProbeLatencies :
          servers' = [servers EXCEPT ![s] =
                         [Latency |-> IF ~r.err THEN elapsed
                                      ELSE PenaltyLatency,
                          LastTest |-> rounds + 1,
                          probeErr |-> r.err]]
    /\ probe' = [probe EXCEPT ![s] = "done"]
    /\ UNCHANGED <<transport, req, fullCommand, hpc, rpc, rdpc, pipeLines,
                   proc, emitted, consumed, chanClosed, stopChan, rdDone,
                   stopped, activeCommands, stopSignals, handlerCommands,
                   clientMsgs, stopResp, stopAccepted, linesWritten, kills,
                   panicked, rateLimiter, now, checks, currentIndex, rounds,
                   resolve, queries, resultChan, ctxDone, executed, created,
                   locks, limiter, doh>>

\* a selectFastestServer that does not wait for every probe of the round
SelectFastestServerEarly ==
    /\ \E s \in Servers : probe[s] = "done"
    /\ currentIndex' = FastestIndex(servers)
    /\ probe' = [s \in Servers |-> "idle"]
    /\ rounds' = rounds + 1
    /\ UNCHANGED <<transport, req, fullCommand, hpc, rpc, rdpc, pipeLines,
                   proc, emitted, consumed, chanClosed, stopChan, rdDone,
                   stopped, activeCommands, stopSignals, handlerCommands,
                   clientMsgs, stopResp, stopAccepted, linesWritten, kills,
                   panicked, rateLimiter, now, checks, servers, resolve,
                   queries, resultChan, ctxDone, executed, created, locks,
                   limiter, doh>>

\* wg.Wait() returns and testAllServers calls selectFastestServer
SelectFastestServer ==
    /\ \A s \in Servers : probe[s] = "done"
    /\ currentIndex' = FastestIndex(servers)
    /\ probe' = [s \in Servers |-> "idle"]
    /\ rounds' = rounds + 1
    /\ UNCHANGED <<transport, req, fullCommand, hpc, rpc, rdpc, pipeLines,
                   proc, emitted, consumed, chanClosed, stopChan, rdDone,
                   stopped, activeCommands, stopSignals, handlerCommands,
                   clientMsgs, stopResp, stopAccepted, linesWritten, kills,
                   panicked, rateLimiter, now, checks, servers, resolve,
                   queries, resultChan, ctxDone, executed, created, locks,
                   limiter, doh>>

-----------------------------------------------------------------------------
(* The DNS resolver: Resolve *)

\* what resolveDoH returns for the endpoint s now
DohReturns(s) == IF ctxDone THEN {DohAborted(s)} ELSE DohResults(s)

\* Resolve returns r
ResolveReturn(r) == [resolve EXCEPT !.pc = "done", !.result = r]

\* a Resolve that starts with the first endpoint of the list
ResolveCallFirstServer ==
    /\ resolve.pc = "idle"
    /\ resolve' = [resolve EXCEPT !.pc = "current", !.currentServer = 0]
    /\ queries' = {0}
    /\ UNCHANGED <<transport, req, fullCommand, hpc, rpc, rdpc, pipeLines,
                   proc, emitted, consumed, chanClosed, stopChan, rdDone,
                   stopped, activeCommands, stopSignals, handlerCommands,
                   clientMsgs, stopResp, stopAccepted, linesWritten, kills,
                   panicked, rateLimiter, now, checks, servers, currentIndex,
                   probe, rounds, resultChan, ctxDone, executed, created, locks,
                   limiter, doh>>

\* Resolve is called: it reads the current endpoint and queries it
ResolveCall ==
    /\ resolve.pc = "idle"
    /\ resolve' = [resolve EXCEPT !.pc = "current",
                                  !.currentServer = currentIndex]
    /\ queries' = {currentIndex}
    /\ UNCHANGED <<transport, req, fullCommand, hpc, rpc, rdpc, pipeLines,
                   proc, emitted, consumed, chanClosed, stopChan, rdDone,
                   stopped, activeCommands, stopSignals, handlerCommands,
                   clientMsgs, stopResp, stopAccepted, linesWritten, kills,
                   panicked, rateLimiter, now, checks, servers, currentIndex,
                   probe, rounds, resultChan, ctxDone, executed, created, locks,
                   limiter, doh>>

\* CurrentReturn starting the goroutines of the other endpoints whatever the
\* current endpoint has answered
CurrentReturnAlwaysRace ==
    /\ resolve.pc = "current"
    /\ \E r \in DohReturns(resolve.currentServer) :
          LET got == [resolve EXCEPT !.received[resolve.currentServer] = r]
          IN  IF HasIPs(r)
              THEN resolve' = [got EXCEPT !.pc = "done", !.result = r]
              ELSE resolve' = [got EXCEPT !.pc = "race", !.i = 0]
    /\ queries' = Servers \ {resolve.currentServer}
    /\ UNCHANGED <<transport, req, fullCommand, hpc, rpc, rdpc, pipeLines,
                   proc, emitted, consumed, chanClosed, stopChan, rdDone,
                   stopped, activeCommands, stopSignals, handlerCommands,
                   clientMsgs, stopResp, stopAccepted, linesWritten, kills,
                   panicked, rateLimiter, now, checks, servers, currentIndex,
                   probe, rounds, resultChan, ctxDone, executed, created, locks,
                   limiter, doh>>

\* the query of the current endpoint returns: Resolve returns its addresses,
\* or starts a goroutine for every other endpoint
CurrentReturn ==
    /\ resolve.pc = "current"
    /\ \E r \in DohReturns(resolve.currentServer) :
          LET got == [resolve EXCEPT !.received[resolve.currentServer] = r]
          IN  IF HasIPs(r)
              THEN /\ resolve' = [got EXCEPT !.pc = "done", !.result = r]
                   /\ queries' = {}
              ELSE /\ resolve' = [got EXCEPT !.pc = "race", !.i = 0]
                   /\ queries' = Servers \ {resolve.currentServer}
    /\ UNCHANGED <<transport, req, fullCommand, hpc, rpc, rdpc, pipeLines,
                   proc, emitted, consumed, chanClosed, stopChan, rdDone,
                   stopped, activeCommands, stopSignals, handlerCommands,
                   clientMsgs, stopResp, stopAccepted, linesWritten, kills,
                   panicked, rateLimiter, now, checks, servers, currentIndex,
                   probe, rounds, resultChan, ctxDone, executed, created, locks,
                   limiter, doh>>

\* the goroutine of another endpoint sends its result on resultChan
OtherReturn(s) ==
    /\ s \in queries
    /\ resolve.pc # "current"
    /\ \E r \in DohReturns(s) : resultChan' = Append(resultChan, r)
    /\ queries' = queries \ {s}
    /\ UNCHANGED <<transport, req, fullCommand, hpc, rpc, rdpc, pipeLines,
                   proc, emitted, consumed, chanClosed, stopChan, rdDone,
                   stopped, activeCommands, stopSignals, handlerCommands,
                   clientMsgs, stopResp, stopAccepted, linesWritten, kills,
                   panicked, rateLimiter, now, checks, servers, currentIndex,
                   probe, rounds, resolve, ctxDone, executed, created, locks,
                   limiter, doh>>

\* a RaceReceive that makes the endpoint whose addresses it returns the
\* current one
RaceReceiveSwitches ==
    /\ resolve.pc = "race"
    /\ resultChan # <<>>
    /\ LET res == Head(resultChan)
           got == [resolve EXCEPT !.received[res.from] = res]
       IN  IF HasIPs(res)
           THEN /\ resolve' = [got EXCEPT !.pc = "done", !.result = res]
                /\ currentIndex' = res.from
           ELSE /\ resolve' = [got EXCEPT !.i = @ + 1,
                                   !.pc = IF resolve.i + 1 < NumServers - 1
                                          THEN "race" ELSE "platform"]
                /\ UNCHANGED currentIndex
    /\ resultChan' = Tail(resultChan)
    /\ UNCHANGED <<transport, req, fullCommand, hpc, rpc, rdpc, pipeLines,
                   proc, emitted, consumed, chanClosed, stopChan, rdDone,
                   stopped, activeCommands, stopSignals, handlerCommands,
                   clientMsgs, stopResp, stopAccepted, linesWritten, kills,
                   panicked, rateLimiter, now, checks, servers, probe, rounds,
                   queries, ctxDone, executed, created, locks, limiter, doh>>

\* the select of Resolve receives a result
RaceReceive ==
    /\ resolve.pc = "race"
    /\ resultChan # <<>>
    /\ LET res == Head(resultChan)
           got == [resolve EXCEPT !.received[res.from] = res]
       IN  IF HasIPs(res)
           THEN resolve' = [got EXCEPT !.pc = "done", !.result = res]
           ELSE resolve' = [got EXCEPT !.i = @ + 1,
                                !.pc = IF resolve.i + 1 < NumServers - 1
                                       THEN "race" ELSE "platform"]
    /\ resultChan' = Tail(resultChan)
    /\ UNCHANGED <<transport, req, fullCommand, hpc, rpc, rdpc, pipeLines,
                   proc, emitted, consumed, chanClosed, stopChan, rdDone,
                   stopped, activeCommands, stopSignals, handlerCommands,
                   clientMsgs, stopResp, stopAccepted, linesWritten, kills,
                   panicked, rateLimiter, now, checks, servers, currentIndex,
                   probe, rounds, queries, ctxDone, executed, created, locks,
                   limiter, doh>>

\* the select of Resolve takes ctx.Done()
RaceDeadline ==
    /\ resolve.pc = "race"
    /\ ctxDone
    /\ resolve' = ResolveReturn(CtxErr)
    /\ UNCHANGED <<transport, req, fullCommand, hpc, rpc, rdpc, pipeLines,
                   proc, emitted, consumed, chanClosed, stopChan, rdDone,
                   stopped, activeCommands, stopSignals, handlerCommands,
                   clientMsgs, stopResp, stopAccepted, linesWritten, kills,
                   panicked, rateLimiter, now, checks, servers, currentIndex,
                   probe, rounds, queries, resultChan, ctxDone, executed,
                   created, locks, limiter, doh>>

\* the platform resolver answers and Resolve returns its answer
LookupIP ==
    /\ resolve.pc = "platform"
    /\ \E r \in LookupResults :
          /\ ctxDone => r.err
          /\ resolve' = [resolve EXCEPT !.pc = "done", !.result = r,
                                        !.lookup = r]
    /\ UNCHANGED <<transport, req, fullCommand, hpc, rpc, rdpc, pipeLines,
                   proc, emitted, consumed, chanClosed, stopChan, rdDone,
                   stopped, activeCommands, stopSignals, handlerCommands,
                   clientMsgs, stopResp, stopAccepted, linesWritten, kills,
                   panicked, rateLimiter, now, checks, servers, currentIndex,
                   probe, rounds, queries, resultChan, ctxDone, executed,
                   created, locks, limiter, doh>>

\* the deadline of the context passes while Resolve is running
Expire ==
    /\ resolve.pc \in {"current", "race", "platform"}
    /\ ~ctxDone
    /\ ctxDone' = TRUE
    /\ resolve' = [resolve EXCEPT !.expiredWith = queries]
    /\ UNCHANGED <<transport, req, fullCommand, hpc, rpc, rdpc, pipeLines,
                   proc, emitted, consumed, chanClosed, stopChan, rdDone,
                   stopped, activeCommands, stopSignals, handlerCommands,
                   clientMsgs, stopResp, stopAccepted, linesWritten, kills,
                   panicked, rateLimiter, now, checks, servers, currentIndex,
                   probe, rounds, queries, resultChan, executed, created, locks,
                   limiter, doh>>

\* the resolver is the same under both transports
InitDns == InitWith(0) /\ transport = "ws" /\ Idle

NextDns ==
    \/ TestAllServers
    \/ \E s \in Servers : ProbeReturn(s)
    \/ SelectFastestServer
    \/ ResolveCall
    \/ CurrentReturn
    \/ \E s \in Servers : OtherReturn(s)
    \/ RaceReceive
    \/ RaceDeadline
    \/ LookupIP
    \/ Expire

SpecDns == InitDns /\ [][NextDns]_vars

-----------------------------------------------------------------------------
(* Execute and createCommand as functions of their arguments *)

\* a domain target without a port
Target_host == <<"a", ".", "c", "o">>

\* the arguments of the Execute calls: every configured command and one that
\* is not configured, with and without a target; and for the ping, a domain
\* without a port and a resolution whose first address is an IPv6 address,
\* with every kind of target
ExecuteArgs ==
    [command : DOMAIN ConfigCommands \cup {Str_dig},
     target : {Target_none, Target_ip, Target_domain},
     session : Sessions,
     res : ResolveResults]
    \cup [command : {Str_ping},
          target : {Target_host},
          session : {Session1},
          res : ResolveResults]
    \cup [command : {Str_ping},
          target : {Target_ip, Target_domain, Target_host},
          session : {Session1},
          res : {[ips |-> <<Addr_v6, Addr_v4>>, err |-> FALSE]}]

\* the command lines handed to createCommand: every string of up to
\* MaxCmdLen characters over a letter, the blank and the characters of the
\* shell operators
CmdAlphabet == {"a", " ", "|", "&", ">", "<", ";"}
CommandLines == UNION {[1..n -> CmdAlphabet] : n \in 0..MaxCmdLen}

\* Execute is called with the arguments a: what it builds and returns
ExecuteCall(a) ==
    /\ Len(executed) < MaxCalls
    /\ created = <<>>
    /\ LET e == ExecutePrepare(a.command, a.target, a.res)
       IN  executed' = Append(executed,
               [command |-> a.command, target |-> a.target,
                session |-> a.session, res |-> a.res, failed |-> e.failed,
                fullCommand |-> e.fullCommand,
                commandID |-> IF e.failed THEN <<>>
                              ELSE generateCommandID(a.command, a.target,
                                                     a.session)])
    /\ UNCHANGED <<transport, req, fullCommand, hpc, rpc, rdpc, pipeLines,
                   proc, emitted, consumed, chanClosed, stopChan, rdDone,
                   stopped, activeCommands, stopSignals, handlerCommands,
                   clientMsgs, stopResp, stopAccepted, linesWritten, kills,
                   panicked, rateLimiter, now, checks, servers, currentIndex,
                   probe, rounds, resolve, queries, resultChan, ctxDone,
                   created, locks, limiter, doh>>

\* createCommand is called for a command line
CreateCommandCall(line) ==
    /\ created = <<>>
    /\ created' = <<[line |-> line, argv |-> createCommand(line)]>>
    /\ UNCHANGED <<transport, req, fullCommand, hpc, rpc, rdpc, pipeLines,
                   proc, emitted, consumed, chanClosed, stopChan, rdDone,
                   stopped, activeCommands, stopSignals, handlerCommands,
                   clientMsgs, stopResp, stopAccepted, linesWritten, kills,
                   panicked, rateLimiter, now, checks, servers, currentIndex,
                   probe, rounds, resolve, queries, resultChan, ctxDone,
                   executed, locks, limiter, doh>>

\* runCommand calls createCommand for the command line of the last Execute
CreateForExecuted ==
    /\ executed # <<>>
    /\ ~executed[Len(executed)].failed
    /\ CreateCommandCall(executed[Len(executed)].fullCommand)

\* createCommand for the command line of any other configuration
CreateForLine ==
    /\ executed = <<>>
    /\ \E line \in CommandLines : CreateCommandCall(line)

InitCmd == InitWith(0) /\ transport = "ws" /\ Idle

NextCmd ==
    \/ \E a \in ExecuteArgs : ExecuteCall(a)
    \/ CreateForExecuted
    \/ CreateForLine

SpecCmd == InitCmd /\ [][NextCmd]_vars

\* the targets a client may send: well-formed ones, and each of them with a
\* shell operator, a single &, a blank or a character of the target
\* alphabet put in at any position
TargetCores ==
    {Target_ip, Target_domain, Target_host, Addr_v6,
     <<"[", ":", ":", "1", "]", ":", "8">>}
TargetPieces ==
    {shellOperators[k] : k \in 1..Len(shellOperators)}
        \cup {<<"&">>, <<" ">>, <<"-">>, <<".">>, <<":">>, <<"]">>, <<"a">>, <<"1">>}
TargetInputs ==
    TargetCores
        \cup {SubSeq(t, 1, p) \o piece \o SubSeq(t, p + 1, Len(t)) :
                 <<t, p, piece>> \in
                    {x \in TargetCores \X (0..8) \X TargetPieces : x[2] <= Len(x[1])}}

\* Execute is called once, for a command of the configuration and any of
\* these targets, with a resolution that succeeds or fails
ExecuteTarget(a) ==
    /\ executed = <<>>
    /\ ExecuteCall(a)

InitTarget == InitWith(0) /\ transport = "ws" /\ Idle

NextTarget ==
    \/ \E a \in [command : DOMAIN ConfigCommands,
                  target : TargetInputs,
                  session : {Session1},
                  res : {[ips |-> <<>>, err |-> TRUE],
                         [ips |-> <<Addr_v4>>, err |-> FALSE],
                         [ips |-> <<Addr_v6, Addr_v4>>, err |-> FALSE]}] :
          ExecuteTarget(a)
    \/ CreateForExecuted

SpecTarget == InitTarget /\ [][NextTarget]_vars

-----------------------------------------------------------------------------
(* Goroutines taking and releasing the mutexes *)

\* the mutexes the task t holds
HeldBy(t) == {l \in Mutexes : \E h \in locks.held[l] : h[1] = t}

\* a goroutine starts on one of the paths
LockStart(t, path) ==
    /\ locks.task[t].proc = "none"
    /\ locks' = [locks EXCEPT !.task[t] = [proc |-> path, pos |-> 1]]
    /\ UNCHANGED <<transport, req, fullCommand, hpc, rpc, rdpc, pipeLines,
                   proc, emitted, consumed, chanClosed, stopChan, rdDone,
                   stopped, activeCommands, stopSignals, handlerCommands,
                   clientMsgs, stopResp, stopAccepted, linesWritten, kills,
                   panicked, rateLimiter, now, checks, servers, currentIndex,
                   probe, rounds, resolve, queries, resultChan, ctxDone,
                   executed, created, limiter, doh>>

\* the position of the task t after its operation at pos
LockAdvance(t) ==
    IF locks.task[t].pos = Len(LockPaths[locks.task[t].proc])
    THEN [proc |-> "none", pos |-> 0]
    ELSE [locks.task[t] EXCEPT !.pos = @ + 1]

\* Lock and RLock of sync.RWMutex: Lock waits until nobody holds the mutex,
\* RLock until no writer holds it
LockAcquire(t) ==
    /\ locks.task[t].proc # "none"
    /\ LET o == LockPaths[locks.task[t].proc][locks.task[t].pos]
       IN  /\ o[1] \in {"Lock", "RLock"}
           /\ IF o[1] = "Lock" THEN locks.held[o[2]] = {}
              ELSE \A h \in locks.held[o[2]] : h[2] = "RLock"
           /\ locks' = [locks EXCEPT !.task[t] = LockAdvance(t),
                                     !.held[o[2]] = @ \cup {<<t, o[1]>>}]
    /\ UNCHANGED <<transport, req, fullCommand, hpc, rpc, rdpc, pipeLines,
                   proc, emitted, consumed, chanClosed, stopChan, rdDone,
                   stopped, activeCommands, stopSignals, handlerCommands,
                   clientMsgs, stopResp, stopAccepted, linesWritten, kills,
                   panicked, rateLimiter, now, checks, servers, currentIndex,
                   probe, rounds, resolve, queries, resultChan, ctxDone,
                   executed, created, limiter, doh>>

\* Unlock and RUnlock
LockRelease(t) ==
    /\ locks.task[t].proc # "none"
    /\ LET o == LockPaths[locks.task[t].proc][locks.task[t].pos]
       IN  /\ o[1] \in {"Unlock", "RUnlock"}
           /\ locks' = [locks EXCEPT !.task[t] = LockAdvance(t),
                                     !.held[o[2]] = {h \in @ : h[1] # t}]
    /\ UNCHANGED <<transport, req, fullCommand, hpc, rpc, rdpc, pipeLines,
                   proc, emitted, consumed, chanClosed, stopChan, rdDone,
                   stopped, activeCommands, stopSignals, handlerCommands,
                   clientMsgs, stopResp, stopAccepted, linesWritten, kills,
                   panicked, rateLimiter, now, checks, servers, currentIndex,
                   probe, rounds, resolve, queries, resultChan, ctxDone,
                   executed, created, limiter, doh>>

InitLock ==
    /\ InitWith(0)
    /\ transport = "ws"
    /\ Idle

NextLock ==
    \/ \E t \in LockTasks, path \in DOMAIN LockPaths : LockStart(t, path)
    \/ \E t \in LockTasks : LockAcquire(t)
    \/ \E t \in LockTasks : LockRelease(t)

SpecLock == InitLock /\ [][NextLock]_vars

-----------------------------------------------------------------------------
(* The ws RateLimiter with concurrent callers: each critical section of
   checkRateLimit and getRemainingTime is a step *)

\* session.timestamps of the entry of session s in the map of the limiter l,
\* <<NoRemaining>> when the map has no entry
SessionTimestamps(l, s) ==
    IF l.sessions[s] = NoObj THEN <<NoRemaining>>
    ELSE l.timestamps[l.sessions[s]]

\* handleCommand of a request of session s calls checkRateLimit
HandleCommandCall(c, s) ==
    /\ limiter.caller[c] = IdleCaller
    /\ limiter.calls < MaxChecks
    /\ limiter' = [limiter EXCEPT
                      !.calls = @ + 1,
                      !.caller[c] = [pos |-> "check_lookup", session |-> s,
                                     obj |-> NoObj, remaining |-> NoRemaining]]
    /\ UNCHANGED <<transport, req, fullCommand, hpc, rpc, rdpc, pipeLines,
                   proc, emitted, consumed, chanClosed, stopChan, rdDone,
                   stopped, activeCommands, stopSignals, handlerCommands,
                   clientMsgs, stopResp, stopAccepted, linesWritten, kills,
                   panicked, rateLimiter, now, checks, servers, currentIndex,
                   probe, rounds, resolve, queries, resultChan, ctxDone,
                   executed, created, locks, doh>>

\* checkRateLimit, the read-locked section: session, exists :=
\* rl.sessions[sessionID]
CheckLookup(c) ==
    /\ limiter.caller[c].pos = "check_lookup"
    /\ LET session == limiter.sessions[limiter.caller[c].session]
       IN  limiter' = [limiter EXCEPT !.caller[c] =
                          [@ EXCEPT !.obj = session,
                                    !.pos = IF session = NoObj
                                            THEN "check_create"
                                            ELSE "check_update"]]
    /\ UNCHANGED <<transport, req, fullCommand, hpc, rpc, rdpc, pipeLines,
                   proc, emitted, consumed, chanClosed, stopChan, rdDone,
                   stopped, activeCommands, stopSignals, handlerCommands,
                   clientMsgs, stopResp, stopAccepted, linesWritten, kills,
                   panicked, rateLimiter, now, checks, servers, currentIndex,
                   probe, rounds, resolve, queries, resultChan, ctxDone,
                   executed, created, locks, doh>>

\* a creation that replaces the whole map by one with the new entry
CheckCreateNewMap(c) ==
    /\ limiter.caller[c].pos = "check_create"
    /\ LET fresh == limiter.allocated + 1
       IN  limiter' = [limiter EXCEPT
                          !.sessions = [s \in Sessions |->
                                           IF s = limiter.caller[c].session
                                           THEN fresh ELSE NoObj],
                          !.timestamps[fresh] = <<>>,
                          !.allocated = fresh,
                          !.caller[c] = IdleCaller]
    /\ UNCHANGED <<transport, req, fullCommand, hpc, rpc, rdpc, pipeLines,
                   proc, emitted, consumed, chanClosed, stopChan, rdDone,
                   stopped, activeCommands, stopSignals, handlerCommands,
                   clientMsgs, stopResp, stopAccepted, linesWritten, kills,
                   panicked, rateLimiter, now, checks, servers, currentIndex,
                   probe, rounds, resolve, queries, resultChan, ctxDone,
                   executed, created, locks, doh>>

\* checkRateLimit, !exists: a new SessionRateLimit is put into the map under
\* the write lock, return true
CheckCreate(c) ==
    /\ limiter.caller[c].pos = "check_create"
    /\ LET fresh == limiter.allocated + 1
       IN  limiter' = [limiter EXCEPT
                          !.sessions[limiter.caller[c].session] = fresh,
                          !.timestamps[fresh] = <<>>,
                          !.allocated = fresh,
                          !.caller[c] = IdleCaller]
    /\ UNCHANGED <<transport, req, fullCommand, hpc, rpc, rdpc, pipeLines,
                   proc, emitted, consumed, chanClosed, stopChan, rdDone,
                   stopped, activeCommands, stopSignals, handlerCommands,
                   clientMsgs, stopResp, stopAccepted, linesWritten, kills,
                   panicked, rateLimiter, now, checks, servers, currentIndex,
                   probe, rounds, resolve, queries, resultChan, ctxDone,
                   executed, created, locks, doh>>

\* checkRateLimit, exists: under the write lock the list of the object found
\* is pruned, and the call is rejected (handleCommand goes on to
\* getRemainingTime) or its time appended
CheckUpdate(c) ==
    /\ limiter.caller[c].pos = "check_update"
    /\ LET session == limiter.caller[c].obj
           recent == filterRecentTimestamps(limiter.timestamps[session], now,
                                            timeWindow)
       IN  IF Len(recent) >= maxCommands
           THEN limiter' = [limiter EXCEPT
                   !.timestamps[session] = recent,
                   !.caller[c] = [@ EXCEPT !.pos = "remaining_lookup",
                                           !.obj = NoObj]]
           ELSE limiter' = [limiter EXCEPT
                   !.timestamps[session] = Append(recent, now),
                   !.caller[c] = IdleCaller]
    /\ UNCHANGED <<transport, req, fullCommand, hpc, rpc, rdpc, pipeLines,
                   proc, emitted, consumed, chanClosed, stopChan, rdDone,
                   stopped, activeCommands, stopSignals, handlerCommands,
                   clientMsgs, stopResp, stopAccepted, linesWritten, kills,
                   panicked, rateLimiter, now, checks, servers, currentIndex,
                   probe, rounds, resolve, queries, resultChan, ctxDone,
                   executed, created, locks, doh>>

\* getRemainingTime, the read-locked section, and return 0 if !exists
RemainingLookup(c) ==
    /\ limiter.caller[c].pos = "remaining_lookup"
    /\ LET session == limiter.sessions[limiter.caller[c].session]
       IN  IF session = NoObj
           THEN limiter' = [limiter EXCEPT
                   !.caller[c] = [@ EXCEPT !.pos = "rejected", !.remaining = 0]]
           ELSE limiter' = [limiter EXCEPT
                   !.caller[c] = [@ EXCEPT !.obj = session,
                                           !.pos = "remaining_prune"]]
    /\ UNCHANGED <<transport, req, fullCommand, hpc, rpc, rdpc, pipeLines,
                   proc, emitted, consumed, chanClosed, stopChan, rdDone,
                   stopped, activeCommands, stopSignals, handlerCommands,
                   clientMsgs, stopResp, stopAccepted, linesWritten, kills,
                   panicked, rateLimiter, now, checks, servers, currentIndex,
                   probe, rounds, resolve, queries, resultChan, ctxDone,
                   executed, created, locks, doh>>

\* getRemainingTime, under the write lock: the list is pruned and the time
\* until its oldest entry leaves the window returned
RemainingPrune(c) ==
    /\ limiter.caller[c].pos = "remaining_prune"
    /\ LET session == limiter.caller[c].obj
           timestamps == filterRecentTimestamps(limiter.timestamps[session],
                                                now, timeWindow)
           remaining == IF Len(timestamps) = 0 THEN 0
                        ELSE timeWindow - (now - timestamps[1])
       IN  limiter' = [limiter EXCEPT
               !.timestamps[session] = timestamps,
               !.caller[c] = [@ EXCEPT
                                 !.pos = "rejected",
                                 !.obj = NoObj,
                                 !.remaining = IF remaining < 0 THEN 0
                                               ELSE remaining]]
    /\ UNCHANGED <<transport, req, fullCommand, hpc, rpc, rdpc, pipeLines,
                   proc, emitted, consumed, chanClosed, stopChan, rdDone,
                   stopped, activeCommands, stopSignals, handlerCommands,
                   clientMsgs, stopResp, stopAccepted, linesWritten, kills,
                   panicked, rateLimiter, now, checks, servers, currentIndex,
                   probe, rounds, resolve, queries, resultChan, ctxDone,
                   executed, created, locks, doh>>

\* handleCommand sends the rate limit message with the remaining time and
\* returns
RateLimitAnswer(c) ==
    /\ limiter.caller[c].pos = "rejected"
    /\ limiter' = [limiter EXCEPT !.caller[c] = IdleCaller]
    /\ UNCHANGED <<transport, req, fullCommand, hpc, rpc, rdpc, pipeLines,
                   proc, emitted, consumed, chanClosed, stopChan, rdDone,
                   stopped, activeCommands, stopSignals, handlerCommands,
                   clientMsgs, stopResp, stopAccepted, linesWritten, kills,
                   panicked, rateLimiter, now, checks, servers, currentIndex,
                   probe, rounds, resolve, queries, resultChan, ctxDone,
                   executed, created, locks, doh>>

InitLimiter ==
    /\ InitWith(0)
    /\ transport = "ws"
    /\ Idle

NextLimiter ==
    \/ \E c \in Callers, s \in Sessions : HandleCommandCall(c, s)
    \/ \E c \in Callers : CheckLookup(c)
    \/ \E c \in Callers : CheckCreate(c)
    \/ \E c \in Callers : CheckUpdate(c)
    \/ \E c \in Callers : RemainingLookup(c)
    \/ \E c \in Callers : RemainingPrune(c)
    \/ \E c \in Callers : RateLimitAnswer(c)
    \/ Tick

SpecLimiter == InitLimiter /\ [][NextLimiter]_vars

-----------------------------------------------------------------------------
(* The goroutines and channels of Resolve and resolveDoH *)

\* resolveDoH is called for the endpoint s and starts its two query
\* goroutines
DohCall(d, s) == [d EXCEPT !.call[s] = DohCalled]

\* Resolve is called and calls resolveDoH for the current endpoint
ResolveStart ==
    /\ doh.resolve.pc = "idle"
    /\ doh' = DohCall([doh EXCEPT !.resolve.pc = "current"], currentIndex)
    /\ UNCHANGED <<transport, req, fullCommand, hpc, rpc, rdpc, pipeLines,
                   proc, emitted, consumed, chanClosed, stopChan, rdDone,
                   stopped, activeCommands, stopSignals, handlerCommands,
                   clientMsgs, stopResp, stopAccepted, linesWritten, kills,
                   panicked, rateLimiter, now, checks, servers, currentIndex,
                   probe, rounds, resolve, queries, resultChan, ctxDone,
                   executed, created, locks, limiter>>

\* queryDoH returns in the goroutine of the query rt of endpoint s: with
\* addresses or with an error, and with an error when the context is done
QueryReturn(s, rt) ==
    /\ doh.call[s].query[rt].pc = "query"
    /\ \E ok \in BOOLEAN :
          /\ ctxDone => ~ok
          /\ doh' = [doh EXCEPT !.call[s].query[rt] = [pc |-> "send", ok |-> ok]]
    /\ UNCHANGED <<transport, req, fullCommand, hpc, rpc, rdpc, pipeLines,
                   proc, emitted, consumed, chanClosed, stopChan, rdDone,
                   stopped, activeCommands, stopSignals, handlerCommands,
                   clientMsgs, stopResp, stopAccepted, linesWritten, kills,
                   panicked, rateLimiter, now, checks, servers, currentIndex,
                   probe, rounds, resolve, queries, resultChan, ctxDone,
                   executed, created, locks, limiter>>

\* resultChan <- queryResult{...}: the send goes through when the channel
\* has a free slot
QuerySend(s, rt) ==
    /\ doh.call[s].query[rt].pc = "send"
    /\ Len(doh.call[s].resultChan) < DohChanCap
    /\ doh' = [doh EXCEPT
          !.call[s].resultChan = Append(@, doh.call[s].query[rt].ok),
          !.call[s].query[rt].pc = IF doh.call[s].pc = "returned"
                                   THEN "sent_late" ELSE "sent"]
    /\ UNCHANGED <<transport, req, fullCommand, hpc, rpc, rdpc, pipeLines,
                   proc, emitted, consumed, chanClosed, stopChan, rdDone,
                   stopped, activeCommands, stopSignals, handlerCommands,
                   clientMsgs, stopResp, stopAccepted, linesWritten, kills,
                   panicked, rateLimiter, now, checks, servers, currentIndex,
                   probe, rounds, resolve, queries, resultChan, ctxDone,
                   executed, created, locks, limiter>>

\* the select of resolveDoH receives a result; after the second one
\* resolveDoH returns, with addresses if a query had some
DohReceive(s) ==
    /\ doh.call[s].pc = "collect"
    /\ doh.call[s].resultChan # <<>>
    /\ doh' = [doh EXCEPT
          !.call[s].resultChan = Tail(@),
          !.call[s].ok = @ \/ Head(doh.call[s].resultChan),
          !.call[s].i = @ + 1,
          !.call[s].pc = IF doh.call[s].i + 1 = Cardinality(RecordTypes)
                         THEN "returned" ELSE "collect"]
    /\ UNCHANGED <<transport, req, fullCommand, hpc, rpc, rdpc, pipeLines,
                   proc, emitted, consumed, chanClosed, stopChan, rdDone,
                   stopped, activeCommands, stopSignals, handlerCommands,
                   clientMsgs, stopResp, stopAccepted, linesWritten, kills,
                   panicked, rateLimiter, now, checks, servers, currentIndex,
                   probe, rounds, resolve, queries, resultChan, ctxDone,
                   executed, created, locks, limiter>>

\* the select of resolveDoH takes ctx.Done(): return nil, ctx.Err()
DohDeadline(s) ==
    /\ doh.call[s].pc = "collect"
    /\ ctxDone
    /\ doh' = [doh EXCEPT !.call[s].pc = "returned", !.call[s].ok = FALSE]
    /\ UNCHANGED <<transport, req, fullCommand, hpc, rpc, rdpc, pipeLines,
                   proc, emitted, consumed, chanClosed, stopChan, rdDone,
                   stopped, activeCommands, stopSignals, handlerCommands,
                   clientMsgs, stopResp, stopAccepted, linesWritten, kills,
                   panicked, rateLimiter, now, checks, servers, currentIndex,
                   probe, rounds, resolve, queries, resultChan, ctxDone,
                   executed, created, locks, limiter>>

\* resolveDoH of the current endpoint has returned: Resolve returns its
\* addresses, or starts a goroutine for every other endpoint
ResolveFallback ==
    /\ doh.resolve.pc = "current"
    /\ doh.call[currentIndex].pc = "returned"
    /\ IF doh.call[currentIndex].ok
       THEN doh' = [doh EXCEPT !.resolve.pc = "returned"]
       ELSE doh' = [doh EXCEPT
               !.resolve.pc = "race",
               !.resolve.server = [s \in Servers |->
                                      IF s = currentIndex THEN SenderNotStarted
                                      ELSE SenderStarted],
               !.call = [s \in Servers |->
                            IF s = currentIndex THEN @[s] ELSE DohCalled]]
    /\ UNCHANGED <<transport, req, fullCommand, hpc, rpc, rdpc, pipeLines,
                   proc, emitted, consumed, chanClosed, stopChan, rdDone,
                   stopped, activeCommands, stopSignals, handlerCommands,
                   clientMsgs, stopResp, stopAccepted, linesWritten, kills,
                   panicked, rateLimiter, now, checks, servers, currentIndex,
                   probe, rounds, resolve, queries, resultChan, ctxDone,
                   executed, created, locks, limiter>>

\* resolveWithServer returns in the goroutine of the endpoint s
ServerReturn(s) ==
    /\ doh.resolve.server[s].pc = "query"
    /\ doh.call[s].pc = "returned"
    /\ doh' = [doh EXCEPT
          !.resolve.server[s] = [pc |-> "send", ok |-> doh.call[s].ok]]
    /\ UNCHANGED <<transport, req, fullCommand, hpc, rpc, rdpc, pipeLines,
                   proc, emitted, consumed, chanClosed, stopChan, rdDone,
                   stopped, activeCommands, stopSignals, handlerCommands,
                   clientMsgs, stopResp, stopAccepted, linesWritten, kills,
                   panicked, rateLimiter, now, checks, servers, currentIndex,
                   probe, rounds, resolve, queries, resultChan, ctxDone,
                   executed, created, locks, limiter>>

\* resultChan <- result{...} in the goroutine of the endpoint s
ServerSend(s) ==
    /\ doh.resolve.server[s].pc = "send"
    /\ Len(doh.resolve.resultChan) < ResultChanCap
    /\ doh' = [doh EXCEPT
          !.resolve.resultChan = Append(@, doh.resolve.server[s].ok),
          !.resolve.server[s].pc = IF doh.resolve.pc = "returned"
                                   THEN "sent_late" ELSE "sent"]
    /\ UNCHANGED <<transport, req, fullCommand, hpc, rpc, rdpc, pipeLines,
                   proc, emitted, consumed, chanClosed, stopChan, rdDone,
                   stopped, activeCommands, stopSignals, handlerCommands,
                   clientMsgs, stopResp, stopAccepted, linesWritten, kills,
                   panicked, rateLimiter, now, checks, servers, currentIndex,
                   probe, rounds, resolve, queries, resultChan, ctxDone,
                   executed, created, locks, limiter>>

\* the select of Resolve receives a result: Resolve returns its addresses,
\* or goes on, and after len(r.servers)-1 results to the system resolver,
\* and returns
ResolveReceive ==
    /\ doh.resolve.pc = "race"
    /\ doh.resolve.resultChan # <<>>
    /\ doh' = [doh EXCEPT
          !.resolve.resultChan = Tail(@),
          !.resolve.i = @ + 1,
          !.resolve.pc = IF \/ Head(doh.resolve.resultChan)
                            \/ doh.resolve.i + 1 = NumServers - 1
                         THEN "returned" ELSE "race"]
    /\ UNCHANGED <<transport, req, fullCommand, hpc, rpc, rdpc, pipeLines,
                   proc, emitted, consumed, chanClosed, stopChan, rdDone,
                   stopped, activeCommands, stopSignals, handlerCommands,
                   clientMsgs, stopResp, stopAccepted, linesWritten, kills,
                   panicked, rateLimiter, now, checks, servers, currentIndex,
                   probe, rounds, resolve, queries, resultChan, ctxDone,
                   executed, created, locks, limiter>>

\* the select of Resolve takes ctx.Done(): return nil, ctx.Err()
ResolveDeadline ==
    /\ doh.resolve.pc = "race"
    /\ ctxDone
    /\ doh' = [doh EXCEPT !.resolve.pc = "returned"]
    /\ UNCHANGED <<transport, req, fullCommand, hpc, rpc, rdpc, pipeLines,
                   proc, emitted, consumed, chanClosed, stopChan, rdDone,
                   stopped, activeCommands, stopSignals, handlerCommands,
                   clientMsgs, stopResp, stopAccepted, linesWritten, kills,
                   panicked, rateLimiter, now, checks, servers, currentIndex,
                   probe, rounds, resolve, queries, resultChan, ctxDone,
                   executed, created, locks, limiter>>

\* the deadline of the context passes, or Resolve has returned and its
\* deferred cancel runs
ContextDone ==
    /\ doh.resolve.pc # "idle"
    /\ ~ctxDone
    /\ ctxDone' = TRUE
    /\ UNCHANGED <<transport, req, fullCommand, hpc, rpc, rdpc, pipeLines,
                   proc, emitted, consumed, chanClosed, stopChan, rdDone,
                   stopped, activeCommands, stopSignals, handlerCommands,
                   clientMsgs, stopResp, stopAccepted, linesWritten, kills,
                   panicked, rateLimiter, now, checks, servers, currentIndex,
                   probe, rounds, resolve, queries, resultChan, executed,
                   created, locks, limiter, doh>>

InitQueries ==
    /\ InitWith(0)
    /\ transport = "ws"
    /\ currentIndex \in Servers
    /\ RateIdle
    /\ servers = NewServers
    /\ probe = [s \in Servers |-> "idle"]
    /\ rounds = 0
    /\ resolve = ResolveIdle
    /\ queries = {}
    /\ resultChan = <<>>
    /\ ctxDone = FALSE
    /\ CmdIdle
    /\ LockIdle
    /\ LimiterIdle
    /\ QueriesIdle

NextQueries ==
    \/ ResolveStart
    \/ \E s \in Servers, rt \in RecordTypes : QueryReturn(s, rt)
    \/ \E s \in Servers, rt \in RecordTypes : QuerySend(s, rt)
    \/ \E s \in Servers : DohReceive(s)
    \/ \E s \in Servers : DohDeadline(s)
    \/ ResolveFallback
    \/ \E s \in Servers : ServerReturn(s)
    \/ \E s \in Servers : ServerSend(s)
    \/ ResolveReceive
    \/ ResolveDeadline
    \/ ContextDone

SpecQueries == InitQueries /\ [][NextQueries]_vars

----------------------------------------------------------------------------
(* Properties *)

\* the positions of the terminal Outputs in an invocation's event stream
Terminals(i) == {p \in 1..Len(emitted[i]) : emitted[i][p].IsComplete}
\* the positions of its Stopped Outputs
StoppedEvents(i) == {p \in 1..Len(emitted[i]) : emitted[i][p].IsStopped}

\* C1: an invocation's event stream never carries two terminal events, and
\* when it is closed it carries exactly one
C1_ExactlyOneTerminal ==
    \A i \in Invs :
        /\ Cardinality(Terminals(i)) <= 1
        /\ chanClosed[i] => Cardinality(Terminals(i)) = 1

\* C2: a terminal event is the last event of its stream, and when runCommand
\* emits it for a started process both streamOutput goroutines have returned
C2_TerminalIsLast ==
    \A i \in Invs :
        \A p \in Terminals(i) :
            /\ p = Len(emitted[i])
            /\ proc[i] # "none" => \A k \in Pipes : rdpc[i][k] = "done"

\* a stream with a line of each pipe followed by the terminal event
C2_Witness ==
    \E i \in Invs :
        /\ Len(emitted[i]) = 3
        /\ emitted[i][3].IsComplete
        /\ \E p, q \in 1..2 :
              /\ ~emitted[i][p].IsComplete /\ emitted[i][p].IsError
              /\ ~emitted[i][q].IsComplete /\ ~emitted[i][q].IsError

Unregistered(id) ==
    \A i \in Invs :
        (req[i] # NoReq /\ commandID(i) = id) =>
            IF transport = "ws"
            THEN \/ rpc[i] = "done"
                 \/ rpc[i] = "none" /\ hpc[i] \in {"store_active", "done"}
            ELSE hpc[i] \in {"store_active", "store_stop", "registered", "done"}

\* C4: a stop request for a commandID that is not registered is answered
\* with false and changes nothing else: no process, no table, no stop
\* channel, no event stream
C4_StopUnknown ==
    [][\A by \in StopSessions, id \in StopIDs :
          ((WsStopRequest(by, id) \/ SseStopRequest(by, id))
              /\ Unregistered(id))
          => /\ stopResp' = [id |-> id, ok |-> FALSE]
             /\ UNCHANGED <<transport, req, fullCommand, hpc, rpc, rdpc,
                            pipeLines, proc, emitted, consumed, chanClosed,
                            stopChan, rdDone, stopped, activeCommands,
                            stopSignals, handlerCommands, clientMsgs,
                            stopAccepted, linesWritten, kills, panicked>>]_vars

\* a stop request for an unknown commandID was refused while an invocation
\* is registered and its process runs
C4_Witness ==
    /\ stopResp = [id |-> UnknownID, ok |-> FALSE]
    /\ \E i \in Invs :
          /\ proc[i] = "running"
          /\ stopSignals[commandID(i)] = i
          /\ ~stopChan[i]

\* C5: however many stop requests an invocation gets, its runCommand calls
\* Kill at most once and emits at most one Stopped event; a stop request
\* by itself changes no process, event stream or executor table, and one
\* that finds the signal still pending is refused and changes nothing
C5_StopIdempotent ==
    /\ [](\A i \in Invs :
             /\ Len(kills[i]) <= 1
             /\ Cardinality(StoppedEvents(i)) <= 1)
    /\ [][\A by \in StopSessions, id \in StopIDs :
             (WsStopRequest(by, id) \/ SseStopRequest(by, id))
             => /\ UNCHANGED <<proc, emitted, kills, chanClosed, panicked,
                               activeCommands, stopSignals, rpc, rdpc, hpc>>
                /\ (/\ transport = "ws"
                    /\ id \in CommandIDs
                    /\ stopSignals[id] # NoInv
                    /\ stopChan[stopSignals[id]])
                   => /\ ~stopResp'.ok
                      /\ UNCHANGED <<stopChan, stopAccepted>>]_vars

\* an invocation that was stopped, killed once, has emitted its one Stopped
\* event and closed its stream, and for which a later stop request was
\* accepted as well
C5_Witness ==
    \E i \in Invs :
        /\ chanClosed[i]
        /\ stopped[i] /\ stopChan[i]
        /\ Len(kills[i]) = 1
        /\ Cardinality(StoppedEvents(i)) = 1

\* C6: a registered invocation keeps its entries until its terminal event
\* is emitted (executor tables) and until its handler has seen the end of
\* the stream (handler table), and no entry of it is left when it has ended
C6_RegistryLifecycle ==
    \A i \in Invs :
        /\ rpc[i] \in {"start", "select", "wait_stop"}
              => /\ activeCommands[commandID(i)].owner = i
                 /\ stopSignals[commandID(i)] = i
        /\ hpc[i] = "stream" => handlerCommands[commandID(i)] = i
        /\ rpc[i] = "done"
              => /\ activeCommands[commandID(i)].owner # i
                 /\ stopSignals[commandID(i)] # i
        /\ hpc[i] = "done" => handlerCommands[commandID(i)] # i

\* C7: a stop request that was accepted while the process was running has
\* reached the executor (the signal is pending or runCommand has taken it),
\* and when the stream is closed the process was killed and the stream ends
\* with Stopped
C7_AcceptedStopKills ==
    \A i \in stopAccepted :
        /\ stopChan[i] \/ stopped[i]
        /\ chanClosed[i] =>
              /\ proc[i] = "killed"
              /\ StoppedEvents(i) = {Len(emitted[i])}

\* C8: the outcome of a stop request is a function of the commandID and of
\* the table the handler consults, whichever session sends it: it succeeds
\* exactly if the table has an entry (with a free signal slot, in the
\* executor), and then the signal is sent or the handler entry closed
C8_StopAnySession ==
    [][\A by \in StopSessions, id \in StopIDs :
          /\ WsStopRequest(by, id)
                => LET expected == /\ id \in CommandIDs
                                   /\ stopSignals[id] # NoInv
                                   /\ ~stopChan[stopSignals[id]]
                   IN  /\ stopResp'.ok = expected
                       /\ expected => stopChan'[stopSignals[id]]
          /\ SseStopRequest(by, id)
                => LET expected == /\ id \in CommandIDs
                                   /\ handlerCommands[id] # NoInv
                   IN  /\ stopResp'.ok = expected
                       /\ expected => handlerCommands'[id] = NoInv]_vars

\* a stop request was accepted for a running invocation that a session
\* other than the requester's has started
C8_Witness ==
    /\ stopResp.ok
    /\ \E i \in stopAccepted :
          /\ commandID(i) = stopResp.id
          /\ req[i].session \notin StopSessions

\* what ValidateInput and the handler's checks say about the requests
InputTypes == [r \in Requests |-> ValidateInput(r.target)]
Refusals == [r \in Requests |-> HandlerRefusal(r.command, r.target)]

\* Execute has failed for the request of handler i: the handler has let the
\* request pass, and has returned without a runCommand goroutine
ExecuteFailed(i) ==
    /\ hpc[i] = "done"
    /\ rpc[i] = "none"
    /\ Refusals[req[i]] = ""

\* Execute fails, with an Output that is an error and terminal, for an
\* unknown command and for a domain whose resolution fails or yields no
\* address
ExecuteFailsBeforeSpawn ==
    \A r \in Requests, res \in ResolveResults :
        LET e == ExecutePrepare(r.command, r.target, res)
            isDomain == /\ r.command \in DOMAIN ConfigCommands
                        /\ ~ConfigCommands[r.command].IgnoreTarget
                        /\ InputTypes[r] = Domain
        IN  /\ (\/ r.command \notin DOMAIN ConfigCommands
                \/ isDomain /\ (res.err \/ Len(res.ips) = 0))
                  => /\ e.failed
                     /\ e.output.IsError /\ e.output.IsComplete
            /\ e.failed => e.fullCommand = <<>>

\* C9: Execute fails for an unknown command and for a domain whose
\* resolution fails or yields no address; a failed Execute has put exactly
\* one event on the stream, an error and terminal, has started no process
\* and no runCommand, and has left no entry in either table
C9_ExecuteFailure ==
    /\ ExecuteFailsBeforeSpawn
    /\ \A i \in Invs :
          ExecuteFailed(i) =>
              /\ Len(emitted[i]) = 1
              /\ emitted[i][1].IsError /\ emitted[i][1].IsComplete
              /\ proc[i] = "none"
              /\ fullCommand[i] = <<>>
              /\ activeCommands[commandID(i)].owner # i
              /\ stopSignals[commandID(i)] # i
              /\ clientMsgs[i] = <<RefuseMsg("Failed to execute command")>>

\* Execute has failed because the resolver returned no address
C9_Witness ==
    \E i \in Invs :
        /\ ExecuteFailed(i)
        /\ emitted[i] = <<ErrorOutput("No IP addresses found for domain")>>
        /\ activeCommands[commandID(i)] = NoEntry
        /\ stopSignals[commandID(i)] = NoInv

-----------------------------------------------------------------------------
(* The rate limiter *)

\* the accepted checks of session s that lie within the window that ends
\* at its k-th check
RecentAccepted(s, k) ==
    {j \in 1..(k - 1) : /\ checks[s][j].ok
                        /\ checks[s][k].at - checks[s][j].at < timeWindow}

\* C11: with the limiter enabled, the first maxCommands checks of a new
\* session are accepted; the next check, when it falls within the window
\* that the first one opened, is rejected; and a check is accepted again
\* once the window has passed since the oldest accepted check that still
\* counted, that is when fewer than maxCommands accepted checks lie within
\* the window before it.
C11_RateLimit ==
    rateLimiter.enabled =>
        \A s \in Sessions :
            /\ \A k \in 1..Len(checks[s]) :
                   k <= maxCommands => checks[s][k].ok
            /\ ( /\ Len(checks[s]) > maxCommands
                 /\ checks[s][maxCommands + 1].at - checks[s][1].at < timeWindow )
               => ~checks[s][maxCommands + 1].ok
            /\ \A k \in 1..Len(checks[s]) :
                   Cardinality(RecentAccepted(s, k)) < maxCommands
                       => checks[s][k].ok

-----------------------------------------------------------------------------
(* The DNS resolver *)

ResolveDone == resolve.pc = "done"
\* Resolve has returned the addresses of an endpoint
ResolvedBy(s) == ResolveDone /\ HasIPs(resolve.result) /\ resolve.result.from = s

\* C12: when the A query and the AAAA query of an endpoint both come back
\* with addresses, the addresses Resolve returns from that endpoint are its
\* IPv4 addresses only, so the first one is IPv4 whichever query answered
\* first.
C12_AutoPrefersIPv4 ==
    \A s \in Servers :
        (ResolvedBy(s) /\ resolve.result.gotA /\ resolve.result.gotAAAA)
            => \A k \in 1..Len(resolve.result.ips) : resolve.result.ips[k].v = 4

\* C13 as claimed: Resolve returns the addresses of the first endpoint that
\* succeeds and has waited for the answer of no other endpoint, whichever
\* endpoint is the current one.
C13_EndpointRace ==
    \A s \in Servers :
        ResolvedBy(s) =>
            /\ resolve.result = resolve.received[s]
            /\ \A x \in Servers \ {s} : resolve.received[x] = NoResult

\* C13, amended: Resolve asks the current endpoint first and waits for its
\* answer. It returns that answer when it has an address, and then no other
\* endpoint is queried; otherwise it returns the first answer with an
\* address among the other endpoints, and the only endpoint it has waited
\* for besides is the current one, which has failed.
C13_CurrentThenRace ==
    \A s \in Servers :
        ResolvedBy(s) =>
            /\ resolve.result = resolve.received[s]
            /\ \A x \in Servers \ {s} :
                   resolve.received[x] # NoResult
                       => x = resolve.currentServer /\ ~HasIPs(resolve.received[x])
            /\ s = resolve.currentServer =>
                   /\ queries = {}
                   /\ resultChan = <<>>
                   /\ \A x \in Servers \ {s} : resolve.received[x] = NoResult

\* Resolve has returned the addresses of an endpoint other than the current
\* one, after the current one has failed
C13_Witness ==
    \E s \in Servers :
        /\ ResolvedBy(s)
        /\ s # resolve.currentServer
        /\ resolve.received[resolve.currentServer].err

\* C14: Resolve returns an error only when the current endpoint, every
\* other endpoint and the platform resolver have all been asked and have
\* all failed.
C14_FailureOnlyOnExhaustion ==
    (ResolveDone /\ resolve.result.err) =>
        /\ \A s \in Servers :
               resolve.received[s] # NoResult /\ ~HasIPs(resolve.received[s])
        /\ resolve.lookup # NoResult
        /\ resolve.lookup.err

\* C15: when the deadline has passed while endpoint queries were
\* outstanding, Resolve goes on to the platform resolver and returns what
\* the platform resolver answers.
C15_DeadlineFallsBack ==
    (ResolveDone /\ ctxDone /\ resolve.expiredWith # {}) =>
        /\ resolve.lookup # NoResult
        /\ resolve.result = resolve.lookup

\* the endpoint list is the one built at construction and the index is valid
EndpointsFixed ==
    /\ DOMAIN servers = Servers
    /\ Servers # {}
    /\ currentIndex \in Servers
\* the current endpoint has the lowest recorded latency
CurrentIsFastest ==
    \A s \in Servers : servers[currentIndex].Latency <= servers[s].Latency

\* C16 as claimed: the endpoint set is fixed and non-empty, the current
\* index is valid, and the current endpoint has the lowest recorded latency
\* in every reachable state.
C16_EndpointInvariant == EndpointsFixed /\ CurrentIsFastest

\* C16, amended: the endpoint set is fixed and non-empty and the current
\* index is valid in every reachable state; the current endpoint has the
\* lowest recorded latency in every state in which no probe has written a
\* latency since the last selection.
C16_FastestAfterSelection ==
    /\ EndpointsFixed
    /\ (\A s \in Servers : probe[s] # "done") => CurrentIsFastest

\* a round has made the second endpoint the current one
C16_Witness ==
    /\ rounds > 0
    /\ \A s \in Servers : probe[s] = "idle"
    /\ currentIndex = 1
    /\ servers[1].Latency < servers[0].Latency

-----------------------------------------------------------------------------
(* The command line, the invocation strategy and the commandID *)

\* the Execute calls that have built a command line
Built == {k \in 1..Len(executed) : ~executed[k].failed}

\* the target as it goes into the command line of the call e: the first
\* address with the port of the target for a domain, the target itself
\* otherwise
ResolvedTargetOf(e) ==
    IF ValidateInput(e.target) = Domain
    THEN ReattachPort(e.res.ips[1], extractHostPort(e.target)[2])
    ELSE e.target

\* C17: the command line is the bare template when the template is marked
\* ignore-target or the target is empty, and the template, one space and
\* the resolved target otherwise.
C17_CommandLine ==
    \A k \in Built :
        LET e == executed[k]
            cmdConfig == ConfigCommands[e.command]
        IN  IF cmdConfig.IgnoreTarget \/ e.target = <<>>
            THEN e.fullCommand = cmdConfig.Template
            ELSE /\ ResolvedTargetOf(e) # <<>>
                 /\ e.fullCommand =
                        cmdConfig.Template \o <<" ">> \o ResolvedTargetOf(e)

\* Execute has built the command line of an ignore-target template, once
\* without a target and once with one, and of a template with a domain
\* target
C17_Witness ==
    /\ \E k \in Built : /\ ConfigCommands[executed[k].command].IgnoreTarget
                        /\ executed[k].target = <<>>
                        /\ executed[k].fullCommand # <<>>
    /\ \E k \in Built : /\ ~ConfigCommands[executed[k].command].IgnoreTarget
                        /\ executed[k].target = Target_domain

\* the argv runs the command line through the shell
ThroughShell(c) == Len(c.argv) = 3 /\ c.argv[2] = <<"-", "c">> /\ c.argv[3] = c.line

\* C18: a command line is run through the shell if and only if it contains
\* one of the metacharacters | & && || > < ; and otherwise it is split on
\* whitespace, the first field being the binary and the others its
\* arguments.
C18_InvocationStrategy ==
    \A k \in 1..Len(created) :
        LET c == created[k]
            metacharacters ==
                { <<"|">>, <<"&">>, <<"&", "&">>, <<"|", "|">>, <<">">>,
                  <<"<">>, <<";">> }
        IN  /\ ThroughShell(c) <=> \E m \in metacharacters : Contains(c.line, m)
            /\ ~ThroughShell(c) => c.argv = Fields(c.line)

\* the Data Outputs sent on the event channel of invocation i
DataEvents(i) == SelectSeq(emitted[i], LAMBDA o : ~o.IsComplete)
\* the lines a streamOutput goroutine of invocation i holds for its send
LinesInHand(i) == Cardinality({k \in Pipes : rdpc[i][k] = "send"})
LinesInPipes(i) == pipeLines[i]["stdout"] + pipeLines[i]["stderr"]

\* C19: output is neither dropped nor queued beyond the channel: the event
\* channel never holds more than its capacity; while the process runs and
\* no stop has been taken every line it has written is in a pipe, in the
\* hand of a reader that waits to send it, or sent as a Data Output; and
\* when the process has exited with status 0 and Complete is sent, every
\* line it has written has been sent as a Data Output before.
C19_NoOutputLost ==
    /\ ChanLen(1) <= ChanCap
    /\ (proc[1] = "running" /\ ~stopped[1])
         => Len(DataEvents(1)) + LinesInHand(1) + LinesInPipes(1) = linesWritten
    /\ (\E k \in 1..Len(emitted[1]) :
            /\ emitted[1][k].IsComplete
            /\ ~emitted[1][k].IsStopped
            /\ proc[1] = "exit0")
         => Len(DataEvents(1)) = linesWritten

\* C20: two Execute calls with the same command, target and session get the
\* same commandID when the target is not empty, and no two Execute calls
\* with an empty target get the same commandID.
C20_CommandIDs ==
    \A j \in Built, k \in Built :
        j < k =>
            /\ ( /\ executed[j].target # <<>>
                 /\ executed[j].command = executed[k].command
                 /\ executed[j].target = executed[k].target
                 /\ executed[j].session = executed[k].session )
               => executed[j].commandID = executed[k].commandID
            /\ (executed[j].target = <<>> /\ executed[k].target = <<>>)
               => executed[j].commandID # executed[k].commandID

\* the stop lookup of the transport in use finds an entry for the commandID:
\* Executor.Stop reads stopSignals, the sse handler's stopActiveCommand
\* reads its own activeCommands
StopFinds(id) ==
    IF transport = "ws" THEN stopSignals[id] # NoInv
    ELSE stopActiveCommand(id).ok

\* C21: while the process of an invocation runs, no terminal event has been
\* emitted and no stop request has been answered, a stop request for its
\* commandID finds an entry: the entry is never inserted after the process
\* has been started.
C21_EntryBeforeProcess ==
    \A i \in Invs :
        (proc[i] = "running" /\ Terminals(i) = {} /\ StoppedEvents(i) = {}
            /\ stopResp = NoResp /\ hpc[3 - i] \in {"idle", "done"}
            /\ rpc[3 - i] \in {"none", "done"})
          => StopFinds(commandID(i))

\* C22: the cancellation protocol keeps its order: the abandon signal
\* (stopped) is closed only by the stop branch, which has called stopCommand
\* first; the Stopped Output is emitted only once after the signal and after
\* both readers have acknowledged; the stream of a stopped invocation is
\* closed only after the Stopped Output; and once the abandon signal has
\* been broadcast no further Data Output is enqueued.
C22_CancellationOrder ==
    [][\A i \in Invs :
          /\ (~stopped[i] /\ stopped'[i])
               => (rpc[i] = "select" /\ stopChan[i] /\ rpc'[i] = "wait_stop"
                     /\ (proc[i] = "running" /\ stopCommand(commandID(i)) = i
                           => proc'[i] = "killed"))
          /\ StoppedEvents(i)' # StoppedEvents(i)
               => (stopped[i] /\ \A k \in Pipes : rdDone[i][k])
          /\ (stopped[i] /\ ~chanClosed[i] /\ chanClosed'[i])
               => StoppedEvents(i) # {}
          /\ stopped[i] => DataEvents(i)' = DataEvents(i)]_vars

-----------------------------------------------------------------------------
(* The prober and Resolve *)

\* C23: the current endpoint is reselected only at the end of a probe round,
\* when the probe of every endpoint has returned and has written its latency
\* in this round, and the index chosen is the lowest index among the
\* endpoints with the minimum recorded latency.
C23_SelectAfterAllProbes ==
    [][(currentIndex' # currentIndex \/ rounds' # rounds) =>
          /\ \A s \in Servers :
                /\ probe[s] = "done"
                /\ servers[s].LastTest = rounds + 1
          /\ rounds' = rounds + 1
          /\ \A s \in Servers :
                /\ servers[currentIndex'].Latency <= servers[s].Latency
                /\ s < currentIndex' =>
                      servers[currentIndex'].Latency < servers[s].Latency]_vars

\* a second round has ended with equal latencies and has moved the current
\* endpoint back to the first of them
C23_Witness ==
    /\ rounds = 2
    /\ \A s \in Servers : probe[s] = "idle" /\ servers[s].LastTest = 2
    /\ servers[0].Latency = servers[1].Latency
    /\ currentIndex = 0

\* C24: an endpoint whose probe has failed is recorded with the penalty
\* latency, which is above every latency a probe that succeeded records, and
\* at the end of a round in which the probe of some endpoint has succeeded
\* no endpoint whose probe has failed becomes the current one.
C24_FailedProbeNotSelected ==
    [][/\ \A s \in Servers :
             (probe[s] = "running" /\ probe'[s] = "done") =>
                 /\ servers'[s].probeErr => servers'[s].Latency = PenaltyLatency
                 /\ ~servers'[s].probeErr => servers'[s].Latency < PenaltyLatency
       /\ (rounds' # rounds /\ \E s \in Servers : ~servers[s].probeErr)
             => ~servers[currentIndex'].probeErr]_vars

\* a round in which the first endpoint has failed and the second has not has
\* ended with the second as the current one
C24_Witness ==
    /\ rounds > 0
    /\ \A s \in Servers : probe[s] = "idle"
    /\ servers[0].probeErr /\ servers[0].Latency = PenaltyLatency
    /\ ~servers[1].probeErr
    /\ currentIndex = 1

\* C25: Resolve reads the current index when it is called and queries that
\* endpoint and no other; while it waits for the answer nothing else is
\* queried; and when the answer has an address Resolve returns exactly that
\* answer, with no query to another endpoint or to the platform resolver
\* started.
C25_CurrentFirst ==
    [][/\ (resolve.pc = "idle" /\ resolve'.pc # "idle") =>
             /\ resolve'.pc = "current"
             /\ resolve'.currentServer = currentIndex
             /\ queries' = {currentIndex}
       /\ resolve'.pc = "current" =>
             /\ queries' \subseteq {resolve'.currentServer}
             /\ resultChan' = <<>>
             /\ resolve'.lookup = NoResult
             /\ \A x \in Servers : resolve'.received[x] = NoResult
       /\ (resolve.pc = "current" /\ resolve'.pc # "current") =>
             LET r == resolve'.received[resolve.currentServer]
             IN  /\ r # NoResult
                 /\ r.from \in {resolve.currentServer, FromCtx}
                 /\ HasIPs(r) =>
                       /\ resolve'.pc = "done"
                       /\ resolve'.result = r
                       /\ queries' = {}
                       /\ resultChan' = <<>>
                       /\ resolve'.lookup = NoResult
                       /\ \A x \in Servers \ {resolve.currentServer} :
                              resolve'.received[x] = NoResult]_vars

\* Resolve has returned the addresses of the endpoint that was current when
\* it was called, and a probe round has made another endpoint current since
C25_Witness ==
    /\ ResolvedBy(resolve.currentServer)
    /\ resolve.currentServer = 1
    /\ currentIndex = 0
    /\ queries = {}
    /\ resolve.lookup = NoResult

\* C26: a step of Resolve, whatever the outcome, leaves the latency and the
\* last-probe time of every endpoint and the current index as they are; they
\* change only in a step of the prober, which no part of Resolve takes.
C26_ResolveReadsOnly ==
    [][/\ (resolve' # resolve \/ queries' # queries
             \/ resultChan' # resultChan \/ ctxDone' # ctxDone)
            => UNCHANGED <<servers, currentIndex>>
       /\ (servers' # servers \/ currentIndex' # currentIndex)
            => probe' # probe]_vars

\* Resolve has failed on the endpoint that was current and has returned the
\* addresses of another one, and the failed endpoint is still the current
\* one with the latency its last probe recorded
C26_Witness ==
    /\ ResolveDone
    /\ rounds > 0
    /\ resolve.currentServer = 1
    /\ resolve.received[1].err
    /\ ResolvedBy(0)
    /\ currentIndex = 1
    /\ servers[1].Latency < servers[0].Latency

-----------------------------------------------------------------------------
(* The resolved target *)

\* the target with the address a in the place of the host: the address,
\* in brackets when it is an IPv6 address and a port follows, and the colon
\* and the port of the target when it has them
WithAddress(target, a) ==
    IF \A p \in 1..Len(target) : target[p] # ":"
    THEN a
    ELSE LET colon == CHOOSE p \in 1..Len(target) : target[p] = ":"
             rest == SubSeq(target, colon, Len(target))
         IN  IF \E p \in 1..Len(a) : a[p] = ":"
             THEN <<"[">> \o a \o <<"]">> \o rest
             ELSE a \o rest

\* C27: for a template that takes the target, a domain target goes into the
\* command line as the first address of the resolution with the port of the
\* target put back (ip:port, [ip]:port for an IPv6 address, the bare address
\* when the target has no port), and a target that is an IP address goes in
\* unchanged whatever a resolution would return, failure included.
C27_ResolvedTarget ==
    \A k \in 1..Len(executed) :
        LET e == executed[k]
        IN  (e.command \in DOMAIN ConfigCommands
               /\ ~ConfigCommands[e.command].IgnoreTarget) =>
              /\ (ValidateInput(e.target) = Domain /\ ~e.failed) =>
                    e.fullCommand = ConfigCommands[e.command].Template
                        \o <<" ">> \o WithAddress(e.target, e.res.ips[1])
              /\ ValidateInput(e.target) = IPAddress =>
                    /\ ~e.failed
                    /\ e.fullCommand = ConfigCommands[e.command].Template
                           \o <<" ">> \o e.target

\* Execute has built a command line for a domain with a port whose first
\* address is an IPv6 address, and for an IP address target whose
\* resolution would have failed
C27_Witness ==
    /\ \E k \in Built :
          /\ executed[k].target = Target_domain
          /\ executed[k].res.ips = <<Addr_v6, Addr_v4>>
          /\ executed[k].fullCommand =
                ConfigCommands[executed[k].command].Template
                    \o <<" ", "[", ":", ":", "1", "]", ":", "8", "0">>
    /\ \E k \in Built :
          /\ executed[k].target = Target_ip
          /\ executed[k].res.err

-----------------------------------------------------------------------------
(* The rate limiter: one check, and the remaining time *)

\* the timestamps the limiter rl holds for session s that lie within the
\* window that ends at t
Pruned(rl, s, t) ==
    IF s \in DOMAIN rl.sessions
    THEN SelectSeq(rl.sessions[s], LAMBDA ts : t - ts < timeWindow)
    ELSE <<>>

\* C28: with the limiter enabled a check of a session is accepted if and
\* only if the session's timestamps within the window are fewer than
\* maxCommands; an accepted check appends the current time to them and
\* nothing else, a rejected check appends nothing; and the timestamps within
\* the window are never more than maxCommands.
C28_CheckAppendsOne ==
    [][rateLimiter.enabled =>
          \A s \in Sessions :
              checks'[s] # checks[s] =>
                  LET before == Pruned(rateLimiter, s, now)
                      after == Pruned(rateLimiter', s, now)
                      ok == checks'[s][Len(checks'[s])].ok
                  IN  /\ ok <=> Len(before) < maxCommands
                      /\ ok => after = Append(before, now)
                      /\ ~ok => after = before
                      /\ Len(after) <= maxCommands]_vars

\* C29: the remaining time that getRemainingTime returns after a rejected
\* check is the window less the age of the oldest timestamp of the session
\* that is still within the window, and 0 when the session has no such
\* timestamp; it is never negative and never more than the window.
C29_RemainingTime ==
    [][\A s \in Sessions :
          \A k \in 1..Len(checks[s]) :
              (checks[s][k].remaining = NoRemaining
                 /\ checks'[s][k].remaining # NoRemaining) =>
                  LET inside == Pruned(rateLimiter, s, now)
                      remaining == checks'[s][k].remaining
                  IN  /\ remaining >= 0
                      /\ remaining <= timeWindow
                      /\ inside = <<>> => remaining = 0
                      /\ inside # <<>> =>
                            remaining = timeWindow - (now - inside[1])]_vars

-----------------------------------------------------------------------------
(* The failed command *)

\* C30: when the process of an invocation has ended with a status other than
\* 0 or Wait has returned an error, the terminal event of the exit branch is
\* a Complete event that is marked as an error and carries the failure
\* message, and once the handler has received it the last message to the
\* client is a terminal message with success false and that message.
C30_FailureReported ==
    \A i \in Invs :
        \A p \in Terminals(i) :
            (~emitted[i][p].IsStopped /\ proc[i] \in {"exit1", "killed"}) =>
                /\ emitted[i][p].IsError
                /\ "Command failed" \in {emitted[i][p].Output, emitted[i][p].Error}
                /\ consumed[i] >= p =>
                      LET m == clientMsgs[i][Len(clientMsgs[i])]
                      IN  /\ m.is_complete
                          /\ ~m.success
                          /\ "Command failed" \in {m.error, m.output}

-----------------------------------------------------------------------------
(* The mutexes *)

\* C31: no goroutine holds two mutexes at the same time, and a goroutine
\* that holds a mutex does nothing with a mutex but release the one it
\* holds, so no goroutine waits for a mutex while it holds another.
C31_OneLockAtATime ==
    \A t \in LockTasks :
        /\ Cardinality(HeldBy(t)) <= 1
        /\ HeldBy(t) # {} =>
              LET o == LockPaths[locks.task[t].proc][locks.task[t].pos]
              IN  /\ o[1] \in {"Unlock", "RUnlock"}
                  /\ o[2] \in HeldBy(t)

\* runCommand holds the stop lock in removeCommand while a stop request
\* waits for it in Stop
C31_Witness ==
    /\ locks.held["e.stopLock"] = {<<1, "Lock">>}
    /\ locks.task[1].proc = "runCommand"
    /\ locks.task[2] = [proc |-> "wsHandleStopCommand", pos |-> 1]

-----------------------------------------------------------------------------
(* Liveness *)

\* the invocation i is over: runCommand and both streamOutput goroutines
\* have returned, the entries of its commandID are removed and its event
\* channel is closed
Finished(i) ==
    /\ rpc[i] = "done"
    /\ \A k \in Pipes : rdpc[i][k] = "done"
    /\ chanClosed[i]
    /\ activeCommands[commandID(i)] = NoEntry
    /\ stopSignals[commandID(i)] = NoInv

\* C32: when no stop signal is ever sent to the invocation, a process that
\* runs leads to the Complete Output being emitted, the entries removed and
\* the event channel closed, with runCommand and both readers returned.
C32_NormalPathCompletes ==
    ([]~stopChan[1]) =>
        ((proc[1] = "running") ~>
            (/\ Finished(1)
             /\ Terminals(1) # {}
             /\ StoppedEvents(1) = {}))

\* the invocation has finished on the normal path after both readers have
\* sent a line and the channel has been full
C32_Witness ==
    /\ Finished(1)
    /\ StoppedEvents(1) = {}
    /\ Len(DataEvents(1)) = MaxLines
    /\ proc[1] = "exit0"
    /\ ~stopChan[1]

\* C33: a stop signal that Stop has placed on the stop channel of an
\* invocation whose process runs leads to the invocation's terminal Output
\* and to its event channel being closed, with both readers returned,
\* whether or not the process writes or exits by itself.
C33_StopPathCompletes ==
    \A i \in Invs :
        (stopChan[i] /\ proc[i] = "running") ~>
            (/\ Terminals(i) # {}
             /\ chanClosed[i]
             /\ \A k \in Pipes : rdpc[i][k] = "done")

\* C34: an invocation for which Stop has returned true, its signal lying on
\* the invocation's stop channel, does not emit a terminal Output other than
\* the Stopped one.
C34_AcceptedStopEndsStopped ==
    [][\A i \in Invs :
          (/\ stopChan[i]
           /\ Len(emitted'[i]) = Len(emitted[i]) + 1
           /\ emitted'[i][Len(emitted'[i])].IsComplete)
              => emitted'[i][Len(emitted'[i])].IsStopped]_vars

\* C35: every process that runCommand has killed on a stop signal is the
\* process of the invocation whose runCommand took the signal.
C35_KillsOwnProcess ==
    \A i \in Invs :
        \A n \in 1..Len(kills[i]) : kills[i][n] = i

\* C36: no step takes the stop channel of an invocation out of stopSignals
\* while its process runs and runCommand has not emitted its terminal
\* Output: Stop(commandID) keeps reaching that invocation.
C36_StopHandleKept ==
    [][\A i \in Invs :
          (/\ proc[i] = "running"
           /\ rpc[i] \in {"select", "wait_stop"}
           /\ rpc'[i] \in {"select", "wait_stop"}
           /\ stopSignals[commandID(i)] = i)
              => stopSignals'[commandID(i)] = i]_vars

\* C37: when the event channel of an invocation is closed, both streamOutput
\* goroutines have returned or were never started, and no send on the closed
\* channel has ended the program.
C37_NoSendAfterClose ==
    \A i \in Invs :
        chanClosed[i] =>
            /\ \A k \in Pipes : rdpc[i][k] \in {"none", "done"}
            /\ rpc[i] = "done"

\* the channel was closed after a stop: a reader had a line in hand when the
\* supervisor closed stopped, and has returned without sending it
C37_Witness ==
    /\ chanClosed[1]
    /\ StoppedEvents(1) # {}
    /\ LinesInHand(1) + LinesInPipes(1) + Len(DataEvents(1)) < linesWritten
    /\ \A k \in Pipes : rdpc[1][k] = "done"

(* Sessions of the rate limiter *)

\* what checkRateLimit would answer to session s at time t with the limiter l
CheckOutcome(l, s, t) ==
    \/ l.sessions[s] = NoObj
    \/ Len(filterRecentTimestamps(l.timestamps[l.sessions[s]], t, timeWindow))
          < maxCommands

\* C38: a critical section of checkRateLimit or getRemainingTime that runs
\* for session A leaves, for every other session B, the map entry of B and
\* its timestamp list, what B's callers have in hand, and the answer a
\* check of B would get, as they are, whatever other calls are in flight.
C38_SessionsIndependent ==
    [][\A c \in Callers :
          limiter'.caller[c] # limiter.caller[c] =>
             LET A == IF limiter.caller[c].pos = "idle"
                      THEN limiter'.caller[c].session
                      ELSE limiter.caller[c].session
             IN  \A B \in Sessions \ {A} :
                    /\ limiter'.sessions[B] = limiter.sessions[B]
                    /\ SessionTimestamps(limiter', B) = SessionTimestamps(limiter, B)
                    /\ \A o \in Callers :
                          limiter.caller[o].session = B
                             => limiter'.caller[o] = limiter.caller[o]
                    /\ CheckOutcome(limiter', B, now')
                          <=> CheckOutcome(limiter, B, now)]_vars

\* session 2 is at its limit and has been rejected, its handler is between
\* the two critical sections of getRemainingTime, and a first check of
\* session 1 has created its entry
C38_Witness ==
    /\ limiter.caller[2].pos = "remaining_prune"
    /\ limiter.caller[2].session = Session2
    /\ Len(SessionTimestamps(limiter, Session2)) = maxCommands
    /\ ~CheckOutcome(limiter, Session2, now)
    /\ limiter.sessions[Session1] > limiter.sessions[Session2]

(* Validated targets and the shell *)

\* C39: a command line built with a target that ValidateInput classifies as
\* IPAddress or Domain contains a shell operator, and is run through the
\* shell, only if the template alone does and is.
C39_ValidatedTargetNoShell ==
    \A k \in 1..Len(executed) :
        LET e == executed[k]
            template == ConfigCommands[e.command].Template
            operator(line) ==
                \E o \in 1..Len(shellOperators) : Contains(line, shellOperators[o])
        IN  (~e.failed /\ ValidateInput(e.target) \in {IPAddress, Domain}) =>
               /\ operator(e.fullCommand) => operator(template)
               /\ \A c \in 1..Len(created) :
                     (created[c].line = e.fullCommand /\ ThroughShell(created[c]))
                        => operator(template)

\* createCommand has built the argv for a validated target that is none of
\* the well-formed ones as they stand, and for a domain with a port whose
\* first address is an IPv6 address
C39_Witness ==
    /\ Len(executed) = 1
    /\ Len(created) = 1
    /\ ValidateInput(executed[1].target) \in {IPAddress, Domain}
    /\ \/ executed[1].target \notin TargetCores
       \/ /\ executed[1].target = Target_domain
          /\ executed[1].res.ips = <<Addr_v6, Addr_v4>>
    /\ created[1].line = executed[1].fullCommand
    /\ ~ThroughShell(created[1])
    /\ Len(created[1].argv) = 4

(* Result channels *)

\* C40: when Resolve or a resolveDoH call has returned, every goroutine of
\* it that has its result in hand finds a free slot in the result channel,
\* so that its send does not block.
C40_SendersNeverBlock ==
    /\ \A s \in Servers, rt \in RecordTypes :
          (doh.call[s].pc = "returned" /\ doh.call[s].query[rt].pc = "send")
             => Len(doh.call[s].resultChan) < DohChanCap
    /\ \A s \in Servers :
          (doh.resolve.pc = "returned" /\ doh.resolve.server[s].pc = "send")
             => Len(doh.resolve.resultChan) < ResultChanCap

\* Resolve has returned at the deadline before the goroutine of the other
\* endpoint had sent, whose resolveDoH had returned before its two queries
\* had sent; all three have sent since
C40_Witness ==
    \E s \in Servers :
        /\ doh.resolve.pc = "returned"
        /\ doh.resolve.server[s].pc = "sent_late"
        /\ \A rt \in RecordTypes : doh.call[s].query[rt].pc = "sent_late"
        /\ Len(doh.call[s].resultChan) = DohChanCap

====
